---- MODULE Spec2Model ----
(***************************************************************************)
(* A model of swimple's request handler (createHandleRequest /             *)
(* handleRequest) and of the helpers it calls.                             *)
(*                                                                         *)
(* Strings that the code takes apart (URL pathnames) are sequences of      *)
(* one-character strings, so that lastIndexOf, substring and startsWith    *)
(* are computed as the code computes them.  A URL is the record of the     *)
(* three parts the code reads from `new URL(url)`: origin, pathname and    *)
(* search; two URLs are the same cache key iff the three parts agree.      *)
(*                                                                         *)
(* Time is Date.now() in milliseconds.  Every `await` of the code is a     *)
(* point where other turns, background work and the clock may run.         *)
(***************************************************************************)
EXTENDS Integers, Sequences, FiniteSets, TLC

(***************************************************************************)
(* Bounds of the model.                                                    *)
(***************************************************************************)
MaxRequests == 3
MaxTicks == 3
MaxCounted == 200
MaxConcurrent == 2
MaxServed == 2
MaxInstanceCalls == 101
MaxOtherCalls == 3
MaxClassified == 1

(***************************************************************************)
(* Program constants.                                                      *)
(***************************************************************************)
MsPerSecond == 1000
CleanupInterval == 100
Null == -1
\* an x-sw-cache-timestamp header whose parseInt(..., 10) is NaN
Unparseable == -2

NoHeader == "<absent>"

VARIABLES
    now,            \* Date.now(), ms
    config,         \* the configuration captured by createHandleRequest
    fetchCounter,   \* let fetchCounter of the handler instance
    otherFetchCounter,  \* let fetchCounter of a second handler instance, made by
                    \* another createHandleRequest call with the same config
    caches,         \* CacheStorage: the Cache objects ever opened under cacheName
    current,        \* index in caches of the Cache that caches.open now returns
    turn,           \* the request turn (the async function of one handleRequest call)
    requests,       \* number of handleRequest calls so far
    netCalls,       \* number of customFetch calls so far
    bgFetch,        \* stale-while-revalidate revalidations whose customFetch is pending
    bgPut,          \* un-awaited cache.put calls not yet applied
    bgDelete,       \* un-awaited cache.delete calls not yet applied
    sweeps,         \* running cleanupOldCacheEntries calls
    bgDone          \* history: how each background revalidation ended, and what
                    \* each un-awaited delete removed

vars == <<now, config, fetchCounter, otherFetchCounter, caches, current, turn,
          requests, netCalls, bgFetch, bgPut, bgDelete, sweeps, bgDone>>

----------------------------------------------------------------------------
(***************************************************************************)
(* Strings and URLs.                                                       *)
(***************************************************************************)

\* String.prototype.lastIndexOf("/"), as a 1-based position; 0 when absent.
RECURSIVE LastIndexOf(_, _, _)
LastIndexOf(s, c, i) ==
    IF i = 0 THEN 0
    ELSE IF s[i] = c THEN i
    ELSE LastIndexOf(s, c, i - 1)

\* String.prototype.startsWith
StartsWith(s, prefix) ==
    /\ Len(prefix) <= Len(s)
    /\ SubSeq(s, 1, Len(prefix)) = prefix

\* The first position at or after i where s holds c; Len(s) + 1 when there is none.
RECURSIVE IndexOf(_, _, _)
IndexOf(s, c, i) ==
    IF i > Len(s) THEN Len(s) + 1
    ELSE IF s[i] = c THEN i
    ELSE IndexOf(s, c, i + 1)

\* The first position at or after i where s does not hold c; Len(s) + 1 when there is none.
RECURSIVE SkipAll(_, _, _)
SkipAll(s, c, i) ==
    IF i > Len(s) THEN Len(s) + 1
    ELSE IF s[i] # c THEN i
    ELSE SkipAll(s, c, i + 1)

\* The characters of s as one string
RECURSIVE Join(_)
Join(s) == IF s = <<>> THEN "" ELSE Head(s) \o Join(Tail(s))

Url(origin, pathname, search) ==
    [origin |-> origin, pathname |-> pathname, search |-> search]

\* new URL(...) threw a TypeError
InvalidUrl == Url("<TypeError>", <<>>, "")

----------------------------------------------------------------------------
(***************************************************************************)
(* Responses.  A network response is [status, payload]; a cached entry is  *)
(* the response plus the x-sw-cache-timestamp header that addTimestamp     *)
(* set (Null when the header is missing or does not parse).               *)
(***************************************************************************)
NoEntry == [status |-> 0, payload |-> 0, ts |-> Null]
NoResponse == [status |-> 0, payload |-> 0]

\* Response.ok
Ok(response) == response.status >= 200 /\ response.status <= 299

\* getCacheTimestamp reading a missing or unparseable header as the epoch
getCacheTimestampOrEpoch(response) ==
    IF response.ts \in {Null, Unparseable} THEN 0 ELSE response.ts

\* helpers.js lines 79-86.  The ts of a response is its x-sw-cache-timestamp
\* header: Null when there is none (or an empty one), Unparseable when
\* parseInt gives NaN, the number it spells otherwise.
getCacheTimestamp(response) ==
    IF response.ts = Unparseable THEN Null ELSE response.ts

\* isFresh with the TTL not converted to milliseconds
isFreshSeconds(response, ttl) ==
    response.ts # Null /\ now - response.ts < ttl

\* isFresh with the comparison turned round
isFreshInverted(response, ttl) ==
    response.ts # Null /\ now - response.ts > ttl * MsPerSecond

\* isFresh measuring against the configured default TTL, not the TTL of the
\* request that reads
isFreshByDefault(response, ttl) ==
    response.ts # Null /\ now - response.ts < config.defaultTTLSeconds * MsPerSecond

\* isFresh with the boundary included: an entry of age ttl exactly is fresh
isFreshInclusive(response, ttl) ==
    LET timestamp == getCacheTimestamp(response) IN
    timestamp # Null /\ now - timestamp <= ttl * MsPerSecond

isFresh(response, ttl) ==
    LET timestamp == getCacheTimestamp(response) IN
    IF timestamp = Null THEN FALSE
    ELSE LET age == now - timestamp IN age < ttl * MsPerSecond

\* isStale with a strict lower bound: an entry of age ttl exactly is not stale
isStaleAfter(response, ttl, staleTTL) ==
    /\ staleTTL # Null
    /\ response.ts # Null
    /\ now - response.ts > ttl * MsPerSecond
    /\ now - response.ts < staleTTL * MsPerSecond

\* isStale without the upper bound
isStaleAnyAge(response, ttl, staleTTL) ==
    response.ts # Null /\ now - response.ts >= ttl * MsPerSecond

\* isStale reading a missing stale-TTL as no upper bound
isStaleWhenAbsent(response, ttl, staleTTL) ==
    LET timestamp == getCacheTimestamp(response) IN
    /\ timestamp # Null
    /\ now - timestamp >= ttl * MsPerSecond
    /\ staleTTL # Null => now - timestamp < staleTTL * MsPerSecond

isStale(response, ttl, staleTTL) ==
    IF staleTTL = Null THEN FALSE
    ELSE LET timestamp == getCacheTimestamp(response) IN
         IF timestamp = Null THEN FALSE
         ELSE LET age == now - timestamp IN
              age >= ttl * MsPerSecond /\ age < staleTTL * MsPerSecond

\* isOlderThanMaxAge with the limit not converted to milliseconds
isOlderThanMaxAgeSeconds(response, maxAgeSeconds) ==
    response.ts # Null /\ now - response.ts >= maxAgeSeconds

\* isOlderThanMaxAge with the boundary excluded
isOlderThanMaxAgeStrict(response, maxAgeSeconds) ==
    LET timestamp == getCacheTimestamp(response) IN
    timestamp # Null /\ now - timestamp > maxAgeSeconds * MsPerSecond

isOlderThanMaxAge(response, maxAgeSeconds) ==
    LET timestamp == getCacheTimestamp(response) IN
    IF timestamp = Null THEN FALSE
    ELSE LET age == now - timestamp IN age >= maxAgeSeconds * MsPerSecond

\* addTimestamp writing seconds where the readers expect milliseconds
addTimestampSeconds(response) ==
    [status |-> response.status, payload |-> response.payload,
     ts |-> now \div MsPerSecond]

\* The response that cache.put stores: same status and body, timestamp Date.now().
addTimestamp(response) ==
    [status |-> response.status, payload |-> response.payload, ts |-> now]

----------------------------------------------------------------------------
(***************************************************************************)
(* Request headers.  A header a request does not carry is NoHeader; the    *)
(* numeric headers carry one of the strings below.                         *)
(***************************************************************************)
NumericStrings == {"-1", "0", "1", "2", "3", "4"}

\* parseInt(s, 10) of a string of NumericStrings
ParseInt(s) ==
    CASE s = "-1" -> 0 - 1
      [] s = "0" -> 0
      [] s = "1" -> 1
      [] s = "2" -> 2
      [] s = "3" -> 3
      [] s = "4" -> 4

\* isNaN(parseInt(s, 10))
IsNaN(s) == s \notin NumericStrings

\* getTTL falling back to the default for a value that is not a number or
\* is negative
getTTLOrDefault(headers, defaultTTL) ==
    LET ttlHeader == headers.ttl
        absent == IF defaultTTL > 0 THEN defaultTTL ELSE Null
    IN  IF ttlHeader = NoHeader THEN absent
        ELSE IF IsNaN(ttlHeader) THEN absent
        ELSE IF ParseInt(ttlHeader) < 0 THEN absent
        ELSE IF ParseInt(ttlHeader) = 0 THEN Null
        ELSE ParseInt(ttlHeader)

getTTL(headers, defaultTTL) ==
    LET ttlHeader == headers.ttl IN
    IF ttlHeader = NoHeader
    THEN (IF defaultTTL > 0 THEN defaultTTL ELSE Null)
    ELSE IF IsNaN(ttlHeader) THEN Null
    ELSE IF ParseInt(ttlHeader) <= 0 THEN Null
    ELSE ParseInt(ttlHeader)

getStaleTTL(headers, defaultStaleTTL) ==
    LET staleTTLHeader == headers.staleTtl IN
    IF staleTTLHeader = NoHeader
    THEN (IF defaultStaleTTL > 0 THEN defaultStaleTTL ELSE Null)
    ELSE IF IsNaN(staleTTLHeader) THEN Null
    ELSE IF ParseInt(staleTTLHeader) <= 0 THEN Null
    ELSE ParseInt(staleTTLHeader)

Strategies == {"cache-first", "network-first", "stale-while-revalidate"}

getStrategy(headers, defaultStrategy) ==
    LET strategyHeader == headers.strategy IN
    IF strategyHeader # NoHeader /\ strategyHeader # "" /\ strategyHeader \in Strategies
    THEN strategyHeader
    ELSE defaultStrategy

\* matchesScope comparing whole pathnames
matchesScopeExactly(url, scope, defaultTTLSeconds) ==
    IF Len(scope) = 0 THEN defaultTTLSeconds > 0
    ELSE \E i \in 1..Len(scope) : url.pathname = scope[i]

matchesScope(url, scope, defaultTTLSeconds) ==
    IF Len(scope) = 0 THEN defaultTTLSeconds > 0
    ELSE \E i \in 1..Len(scope) : StartsWith(url.pathname, scope[i])

----------------------------------------------------------------------------
(***************************************************************************)
(* Invalidation targets.                                                   *)
(***************************************************************************)

\* new URL(path, origin).toString() for a path that starts with "/" and an
\* https origin.  A path that starts with "//" is a scheme-relative reference:
\* the URL parser skips the slashes and reads a host up to the next "/", and
\* what follows is the pathname ("/" when nothing follows); it fails when the
\* host is empty.  Any other path replaces the pathname of the origin.  (The
\* hosts that the paths of this model can spell are single lower-case labels.)
ResolveUrl(pathname, search, origin) ==
    IF Len(pathname) >= 2 /\ pathname[1] = "/" /\ pathname[2] = "/"
    THEN LET start == SkipAll(pathname, "/", 1)
             end == IndexOf(pathname, "/", start)
             host == SubSeq(pathname, start, end - 1)
             rest == SubSeq(pathname, end, Len(pathname))
         IN  IF host = <<>> THEN InvalidUrl
             ELSE Url("https://" \o Join(host),
                      IF rest = <<>> THEN <<"/">> ELSE rest, search)
    ELSE Url(origin, pathname, search)

\* The result holds InvalidUrl when new URL(parentPath, urlObj.origin) throws:
\* the function then throws instead of returning.
getInferredInvalidationPaths(url) ==
    LET path == url.pathname
        lastSlash == LastIndexOf(path, "/", Len(path)) - 1
    IN  IF lastSlash > 0 /\ SubSeq(path, 1, lastSlash) # <<>>
        THEN <<url, ResolveUrl(SubSeq(path, 1, lastSlash), "", url.origin)>>
        ELSE <<url>>

----------------------------------------------------------------------------
(***************************************************************************)
(* The Cache API, as far as the code uses it.  A Cache is a set of         *)
(* [key, response] pairs with at most one pair per key.                    *)
(***************************************************************************)
EmptyCache == {}

\* cache.match(request)
Match(cache, key) ==
    IF \E p \in cache : p.key = key
    THEN (CHOOSE p \in cache : p.key = key).response
    ELSE NoEntry

\* cache.put keyed by the URL without its query string
PutIgnoringSearch(cache, key, response) ==
    LET bare == [key EXCEPT !.search = ""] IN
    {p \in cache : p.key # bare} \cup {[key |-> bare, response |-> response]}

\* cache.put(request, response): the whole entry is replaced
Put(cache, key, response) ==
    {p \in cache : p.key # key} \cup {[key |-> key, response |-> response]}

\* cache.delete(request)
Delete(cache, key) == {p \in cache : p.key # key}

\* cache.delete(url) without the ignoreSearch option
DeleteWithSearch(cache, url) == {p \in cache : p.key # url}

\* cache.delete(url, { ignoreSearch: true }): the Cache API compares the URLs
\* without their query strings
DeleteIgnoreSearch(cache, url) ==
    {p \in cache : ~(p.key.origin = url.origin /\ p.key.pathname = url.pathname)}

\* cache.keys()
Keys(cache) == {p.key : p \in cache}

\* caches.open(cacheName): the live Cache, created when there is none
OpenIndex == IF current = 0 THEN Len(caches) + 1 ELSE current
Opened == IF current = 0 THEN Append(caches, EmptyCache) ELSE caches

----------------------------------------------------------------------------
(***************************************************************************)
(* Request turns.                                                          *)
(***************************************************************************)
Slots == {1, 2}

NoResult == [kind |-> "none", response |-> NoEntry]
NoRequest ==
    [method |-> "", url |-> Url("", <<>>, ""), clear |-> NoHeader, invalidate |-> <<>>,
     ttl |-> NoHeader, staleTtl |-> NoHeader, strategy |-> NoHeader]

IdleTurn ==
    [pc |-> "idle", id |-> 0, request |-> NoRequest, cache |-> 0,
     cachedResponse |-> NoEntry, call |-> 0, responseToCache |-> NoEntry,
     networkResponse |-> NoResponse, pathsToInvalidate |-> <<>>,
     result |-> NoResult,
     ttl |-> Null,           \* const ttl of line 179 (Null is null)
     staleTTL |-> Null,      \* const staleTTL of line 191
     targets |-> <<>>,       \* the urls handed to invalidateCache
     target |-> Url("", <<>>, ""),  \* the url of the latest cache.delete of invalidateCache
     storeBefore |-> {},     \* the entries of the cache before that delete
     storeAfter |-> {},      \* the entries of the cache after it
     \* what the turn has done so far (history, read by the properties only)
     fetches |-> 0,          \* customFetch calls, background revalidation included
     lookups |-> 0,          \* cache.match calls
     threw |-> FALSE,        \* the awaited customFetch threw
     written |-> {},         \* keys of the awaited cache.put calls
     stored |-> NoEntry,     \* the entry under the key when the awaited cache.put resolved
     replaced |-> NoEntry,   \* the entry under the key just before that
     wroteAfter |-> {},      \* ids of the other turns that had written by then
     deleted |-> {},         \* keys removed by the awaited cache.delete calls
     evicted |-> NoEntry,    \* the entry removed by the awaited cache.delete(request)
     evictedAt |-> Null,     \* Date.now() when that delete resolved
     deleteCalls |-> {},     \* keys of all cache.delete(request) calls, awaited or not
     cleared |-> FALSE,      \* caches.delete(cacheName) was called
     storeFailed |-> FALSE,  \* a store delete or write of the turn has thrown
     counted |-> FALSE,      \* fetchCounter was advanced
     swept |-> FALSE,        \* a periodic cleanup was started
     matchedAt |-> Null,     \* Date.now() when cache.match resolved
     stampedAt |-> Null,     \* Date.now() when addTimestamp was called
     doneAt |-> Null]        \* Date.now() when the promise settled

IsMutation(method) == method \in {"POST", "PATCH", "PUT", "DELETE"}

\* The origin of the service worker (self.location.origin)
SelfOrigin == "https://example.com"

\* Results of a turn
Unhandled == [kind |-> "null", response |-> NoEntry]
FromCache(cachedResponse) == [kind |-> "cached", response |-> cachedResponse]
FromNetwork(networkResponse) ==
    [kind |-> "network",
     response |-> [status |-> networkResponse.status,
                   payload |-> networkResponse.payload, ts |-> Null]]
\* the promise rejects with an error of the handler's own making
RejectedWrapped(call) ==
    [kind |-> "error", response |-> [status |-> 0, payload |-> 0, ts |-> Null]]

\* the promise rejects with the error that customFetch call number `call` threw
Rejected(call) ==
    [kind |-> "error", response |-> [status |-> 0, payload |-> call, ts |-> Null]]

\* lines 111-129: relative invalidation paths are resolved against the request origin
NormalizePath(path, requestOrigin) ==
    IF path.origin # "" THEN path
    ELSE ResolveUrl(path.pathname, path.search, requestOrigin)

\* a path that cannot be resolved throws inside the outer try: lines 125-128
\* leave every path as it was
NormalizePaths(paths, requestOrigin) ==
    LET mapped == [i \in 1..Len(paths) |-> NormalizePath(paths[i], requestOrigin)]
    IN  IF \E i \in 1..Len(paths) : mapped[i] = InvalidUrl THEN paths ELSE mapped

\* the promise rejects with a TypeError thrown by the handler's own code
Threw == [kind |-> "typeerror", response |-> NoEntry]

----------------------------------------------------------------------------
(***************************************************************************)
(* handleRequest.                                                          *)
(***************************************************************************)
TTLOf(request) == getTTL(request, config.defaultTTLSeconds)
StaleTTLOf(request) == getStaleTTL(request, config.defaultStaleTTLSeconds)
StrategyOf(request) == getStrategy(request, config.defaultStrategy)

\* The turn ends: its promise settles with `result`.
Finished(t, result) == [t EXCEPT !.pc = "done", !.result = result, !.doneAt = now]

\* customFetch(request) is called; the turn awaits it in state `pc`.
Fetching(t, pc) ==
    [t EXCEPT !.pc = pc, !.call = netCalls + 1, !.fetches = @ + 1]

\* A periodic cleanupOldCacheEntries call that has not opened the cache yet.
NewSweep ==
    [phase |-> "open", cache |-> 0, keys |-> {},
     maxAgeSeconds |-> config.maxCacheAgeSeconds,
     manual |-> FALSE,   \* called by the embedding code, which awaits the result
     deletes |-> {},     \* keys of cleanupPromises (kept for manual calls)
     \* history of a manual call, read by the properties only
     before |-> {},      \* the entries of the cache when cache.keys() resolved
     seen |-> {}]        \* what cache.match returned for each key, and when

\* line 82 as a truthiness test: an empty value counts as no header
HasTruthyClearHeader(request) == request.clear \notin {NoHeader, ""}

\* line 82 placed after the method test of line 138: only a GET can clear
HasClearHeaderOnGet(request) == request.clear # NoHeader /\ request.method = "GET"

\* line 82: getHeader(headers, CACHE_CLEAR_HEADER) !== null
HasClearHeader(request) == request.clear # NoHeader

\* line 101 without the inferInvalidation switch
ShouldInvalidateMutations(invalidateHeaders, isMutation) ==
    Len(invalidateHeaders) > 0 \/ isMutation

\* line 101: the request takes the invalidation path
ShouldInvalidate(invalidateHeaders, isMutation) ==
    Len(invalidateHeaders) > 0 \/ (config.inferInvalidation /\ isMutation)

\* line 138 letting HEAD through
IsReadOrHead(method) == method \in {"GET", "HEAD"}

\* line 138: only GET requests go on
IsRead(method) == method = "GET"

\* lines 145-156 without the comparison
SameOriginUnchecked(url) == TRUE

\* lines 145-156: the request origin is the service worker's
SameOrigin(url) == url.origin = SelfOrigin

\* lines 103-109 with the inferred paths added to the explicit ones
PathsToInvalidateAll(invalidateHeaders, isMutation, url) ==
    invalidateHeaders \o
    (IF config.inferInvalidation /\ isMutation
     THEN getInferredInvalidationPaths(url) ELSE <<>>)

\* lines 103-109: the explicit paths, or the inferred ones when there is none
PathsToInvalidate(invalidateHeaders, isMutation, url) ==
    IF Len(invalidateHeaders) = 0 /\ config.inferInvalidation /\ isMutation
    THEN getInferredInvalidationPaths(url)
    ELSE invalidateHeaders

\* line 167 without the first-request case
CleanupDueHundredth(counter) == counter % CleanupInterval = 0

\* line 167: fetchCounter === 1 || fetchCounter % 100 === 0
CleanupDue(counter) == counter = 1 \/ counter % CleanupInterval = 0

\* lines 172-174 resetting the counter to 0
CounterResetToZero(counter) == IF counter % CleanupInterval = 0 THEN 0 ELSE counter

\* lines 166, 172-174: the value fetchCounter is left with after
\* fetchCounter++ gave `counter`: if (fetchCounter % 100 === 0) fetchCounter = 1
CounterAfter(counter) == IF counter % CleanupInterval = 0 THEN 1 ELSE counter

\* The synchronous part of handleRequest(event), lines 75-192: it returns null
\* (the turn is done with Unhandled) or a promise (the turn goes on).  The
\* handlers are called at most `limit` times.  `h` is the handler instance
\* called: 1 for the instance of fetchCounter, 2 for the second instance.
HandleRequestBy(h, s, request, limit) ==
    /\ turn[s].pc \in {"idle", "done"}
    /\ requests < limit
    /\ requests' = requests + 1
    /\ LET t == [IdleTurn EXCEPT !.id = requests + 1, !.request = request]
           url == request.url
           isMutation == IsMutation(request.method)
           invalidateHeaders == request.invalidate
           counter == (IF h = 1 THEN fetchCounter ELSE otherFetchCounter) + 1
           cleanup == CleanupDue(counter)
           hasExplicitTTLHeader == request.ttl # NoHeader
           ttl == TTLOf(request)
           staleTTL == StaleTTLOf(request)
           strategy == StrategyOf(request)
       IN
       IF HasClearHeader(request)
       THEN /\ turn' = [turn EXCEPT ![s] = [t EXCEPT !.pc = "clearCache"]]
            /\ UNCHANGED <<fetchCounter, otherFetchCounter, sweeps, netCalls>>
       ELSE IF ShouldInvalidate(invalidateHeaders, isMutation)
       THEN LET paths == PathsToInvalidate(invalidateHeaders, isMutation, url)
                normalized == NormalizePaths(paths, url.origin)
            IN  /\ IF \E i \in 1..Len(paths) : paths[i] = InvalidUrl
                   THEN /\ turn' = [turn EXCEPT ![s] = Finished(t, Threw)]
                        /\ UNCHANGED netCalls
                   ELSE IF Len(paths) = 0
                   THEN /\ turn' = [turn EXCEPT ![s] = Fetching(t, "passthrough")]
                        /\ netCalls' = netCalls + 1
                   ELSE /\ turn' = [turn EXCEPT ![s] =
                               [t EXCEPT !.pc = "invalidateCache",
                                         !.pathsToInvalidate = normalized,
                                         !.targets = normalized]]
                        /\ UNCHANGED netCalls
                /\ UNCHANGED <<fetchCounter, otherFetchCounter, sweeps>>
       ELSE IF ~IsRead(request.method)
       THEN /\ turn' = [turn EXCEPT ![s] = Finished(t, Unhandled)]
            /\ UNCHANGED <<fetchCounter, otherFetchCounter, sweeps, netCalls>>
       ELSE IF ~SameOrigin(url)
       THEN /\ turn' = [turn EXCEPT ![s] = Finished(t, Unhandled)]
            /\ UNCHANGED <<fetchCounter, otherFetchCounter, sweeps, netCalls>>
       ELSE /\ UNCHANGED netCalls
            /\ fetchCounter' = IF h = 1 THEN CounterAfter(counter) ELSE fetchCounter
            /\ otherFetchCounter' =
                   IF h = 1 THEN otherFetchCounter ELSE CounterAfter(counter)
            /\ sweeps' = IF cleanup THEN sweeps \cup {NewSweep} ELSE sweeps
            /\ LET tc == [t EXCEPT !.counted = TRUE, !.swept = cleanup, !.ttl = ttl]
                   td == [tc EXCEPT !.staleTTL = staleTTL]
               IN
               IF ~matchesScope(url, config.scope, config.defaultTTLSeconds)
                  /\ ~hasExplicitTTLHeader
               THEN turn' = [turn EXCEPT ![s] = Finished(tc, Unhandled)]
               ELSE IF ttl = Null \/ ttl = 0
               THEN turn' = [turn EXCEPT ![s] = Finished(tc, Unhandled)]
               ELSE IF strategy = "network-first"
               THEN turn' = [turn EXCEPT ![s] = [td EXCEPT !.pc = "open"]]
               ELSE turn' = [turn EXCEPT ![s] = [td EXCEPT !.pc = "match"]]
    /\ UNCHANGED <<now, config, caches, current, bgFetch, bgPut, bgDelete, bgDone>>

HandleRequestWithin(s, request, limit) == HandleRequestBy(1, s, request, limit)

HandleRequest(s, request) == HandleRequestWithin(s, request, MaxRequests)

\* Clear path, lines 84-87: await clearCache(cacheName); return customFetch(request)
ClearCacheDone(s) ==
    /\ turn[s].pc = "clearCache"
    /\ current' = 0
    /\ turn' = [turn EXCEPT ![s] = Fetching([@ EXCEPT !.cleared = TRUE], "passthrough")]
    /\ netCalls' = netCalls + 1
    /\ UNCHANGED <<now, config, fetchCounter, otherFetchCounter, caches, requests, bgFetch, bgPut, bgDelete, sweeps, bgDone>>

\* Invalidation path, line 130 and invalidateCache: one awaited
\* cache.delete(url, {ignoreSearch: true}) per step; after the last one,
\* line 133: return customFetch(request)
InvalidateStep(s) ==
    /\ turn[s].pc = "invalidateCache"
    /\ LET t == turn[s]
           idx == IF t.cache = 0 THEN OpenIndex ELSE t.cache
           opened == IF t.cache = 0 THEN Opened ELSE caches
           url == Head(t.pathsToInvalidate)
           after == DeleteIgnoreSearch(opened[idx], url)
           t1 == [t EXCEPT !.cache = idx,
                           !.pathsToInvalidate = Tail(@),
                           !.target = url,
                           !.storeBefore = opened[idx],
                           !.storeAfter = after,
                           !.deleted = @ \cup (Keys(opened[idx]) \ Keys(after))]
       IN  /\ caches' = [opened EXCEPT ![idx] = after]
           /\ current' = IF t.cache = 0 THEN idx ELSE current
           /\ IF Len(t.pathsToInvalidate) = 1
              THEN /\ turn' = [turn EXCEPT ![s] = Fetching(t1, "passthrough")]
                   /\ netCalls' = netCalls + 1
              ELSE /\ turn' = [turn EXCEPT ![s] = t1]
                   /\ UNCHANGED netCalls
    /\ UNCHANGED <<now, config, fetchCounter, otherFetchCounter, requests, bgFetch, bgPut, bgDelete, sweeps, bgDone>>

\* cache-first lines 197-221 and stale-while-revalidate lines 282-330:
\* caches.open and cache.match have resolved; the code runs to its next await.
MatchDone(s) ==
    /\ turn[s].pc = "match"
    /\ LET t == turn[s]
           request == t.request
           idx == OpenIndex
           cachedResponse == Match(Opened[idx], request.url)
           ttl == TTLOf(request)
           staleTTL == StaleTTLOf(request)
           maxCacheAgeSeconds == config.maxCacheAgeSeconds
           t1 == [t EXCEPT !.cache = idx, !.cachedResponse = cachedResponse,
                           !.lookups = @ + 1, !.matchedAt = now]
       IN  /\ caches' = Opened
           /\ current' = idx
           /\ IF StrategyOf(request) = "cache-first"
              THEN IF cachedResponse # NoEntry /\ isFresh(cachedResponse, ttl)
                   THEN /\ turn' = [turn EXCEPT ![s] = Finished(t1, FromCache(cachedResponse))]
                        /\ UNCHANGED <<netCalls, bgFetch, bgDelete>>
                   ELSE IF cachedResponse # NoEntry
                           /\ isOlderThanMaxAge(cachedResponse, maxCacheAgeSeconds)
                   THEN /\ turn' = [turn EXCEPT ![s] =
                               [t1 EXCEPT !.pc = "delete", !.deleteCalls = @ \cup {request.url}]]
                        /\ UNCHANGED <<netCalls, bgFetch, bgDelete>>
                   ELSE /\ turn' = [turn EXCEPT ![s] = Fetching(t1, "fetch")]
                        /\ netCalls' = netCalls + 1
                        /\ UNCHANGED <<bgFetch, bgDelete>>
              ELSE IF cachedResponse # NoEntry
                      /\ isOlderThanMaxAge(cachedResponse, maxCacheAgeSeconds)
                   THEN /\ bgDelete' = bgDelete \cup {[cache |-> idx, key |-> request.url]}
                        /\ turn' = [turn EXCEPT ![s] =
                               Fetching([t1 EXCEPT !.deleteCalls = @ \cup {request.url}], "fetch")]
                        /\ netCalls' = netCalls + 1
                        /\ UNCHANGED bgFetch
                   ELSE IF cachedResponse # NoEntry
                           /\ (isFresh(cachedResponse, ttl)
                               \/ isStale(cachedResponse, ttl, staleTTL))
                   THEN IF isStale(cachedResponse, ttl, staleTTL)
                        THEN /\ bgFetch' = bgFetch \cup
                                    {[call |-> netCalls + 1, cache |-> idx,
                                      key |-> request.url, owner |-> t.id]}
                             /\ netCalls' = netCalls + 1
                             /\ turn' = [turn EXCEPT ![s] =
                                    Finished([t1 EXCEPT !.fetches = @ + 1],
                                             FromCache(cachedResponse))]
                             /\ UNCHANGED bgDelete
                        ELSE /\ turn' = [turn EXCEPT ![s] =
                                    Finished(t1, FromCache(cachedResponse))]
                             /\ UNCHANGED <<netCalls, bgFetch, bgDelete>>
                   ELSE /\ turn' = [turn EXCEPT ![s] = Fetching(t1, "fetch")]
                        /\ netCalls' = netCalls + 1
                        /\ UNCHANGED <<bgFetch, bgDelete>>
    /\ UNCHANGED <<now, config, fetchCounter, otherFetchCounter, requests, bgPut, sweeps, bgDone>>

\* cache-first line 209: the awaited cache.delete(request) has resolved;
\* line 221: customFetch(request)
DeleteDone(s) ==
    /\ turn[s].pc = "delete"
    /\ LET t == turn[s]
           key == t.request.url
       IN  /\ caches' = [caches EXCEPT ![t.cache] = Delete(@, key)]
           /\ turn' = [turn EXCEPT ![s] =
                  Fetching([t EXCEPT !.deleted = @ \cup {key},
                                     !.evicted = Match(caches[t.cache], key),
                                     !.evictedAt = now], "fetch")]
           /\ netCalls' = netCalls + 1
    /\ UNCHANGED <<now, config, fetchCounter, otherFetchCounter, current, requests, bgFetch, bgPut, bgDelete, sweeps, bgDone>>

\* network-first lines 243-247: caches.open has resolved; customFetch(request)
OpenDone(s) ==
    /\ turn[s].pc = "open"
    /\ caches' = Opened
    /\ current' = OpenIndex
    /\ turn' = [turn EXCEPT ![s] = Fetching([@ EXCEPT !.cache = OpenIndex], "fetch")]
    /\ netCalls' = netCalls + 1
    /\ UNCHANGED <<now, config, fetchCounter, otherFetchCounter, requests, bgFetch, bgPut, bgDelete, sweeps, bgDone>>

\* lines 232, 271, 306, 333: if (networkResponse.ok)
\* caching whatever the network returned
ShouldCacheAny(networkResponse) == TRUE

ShouldCache(networkResponse) == Ok(networkResponse)

\* What customFetch can do: throw, or return a response with one of these statuses.
Statuses == {200, 500}
Outcomes ==
    {[throws |-> TRUE, status |-> 0]}
    \cup {[throws |-> FALSE, status |-> status] : status \in Statuses}

\* The response of customFetch call number `call`; its payload names the call.
NetworkResponse(call, status) == [status |-> status, payload |-> call]

\* the catch blocks entered for a response that is not ok as well
NetworkFailedOrNotOk(outcome) ==
    outcome.throws \/ ~(outcome.status >= 200 /\ outcome.status <= 299)

\* lines 220-222, 246-248: try { networkResponse = await customFetch(request) }
\* catch (error): only a throw enters the catch block
NetworkFailed(outcome) == outcome.throws

\* The awaited customFetch(request) settles.
\*   clear and invalidation paths (lines 86, 133): the result is the turn's result;
\*   cache-first lines 219-236, network-first lines 245-275,
\*   stale-while-revalidate lines 330-337.
FetchSettles(s, outcome) ==
    /\ turn[s].pc \in {"fetch", "passthrough"}
    /\ LET t == turn[s]
           request == t.request
           strategy == StrategyOf(request)
           networkResponse == NetworkResponse(t.call, outcome.status)
       IN
       IF NetworkFailed(outcome)
       THEN LET tt == [t EXCEPT !.threw = outcome.throws,
                                !.networkResponse =
                                    IF outcome.throws THEN @ ELSE networkResponse] IN
            IF t.pc = "passthrough"
            THEN turn' = [turn EXCEPT ![s] = Finished(tt, Rejected(t.call))]
            ELSE IF strategy = "cache-first"
            THEN IF t.cachedResponse # NoEntry
                    /\ isStale(t.cachedResponse, TTLOf(request), StaleTTLOf(request))
                 THEN turn' = [turn EXCEPT ![s] = Finished(tt, FromCache(t.cachedResponse))]
                 ELSE turn' = [turn EXCEPT ![s] = Finished(tt, Rejected(t.call))]
            ELSE IF strategy = "network-first"
            THEN turn' = [turn EXCEPT ![s] = [tt EXCEPT !.pc = "fallback"]]
            ELSE turn' = [turn EXCEPT ![s] = Finished(tt, Rejected(t.call))]
       ELSE IF t.pc = "passthrough"
            THEN turn' = [turn EXCEPT ![s] = Finished(t, FromNetwork(networkResponse))]
            ELSE IF ShouldCache(networkResponse)
            THEN turn' = [turn EXCEPT ![s] =
                     [t EXCEPT !.pc = "put", !.networkResponse = networkResponse,
                               !.responseToCache = addTimestamp(networkResponse),
                               !.stampedAt = now]]
            ELSE turn' = [turn EXCEPT ![s] =
                     Finished([t EXCEPT !.networkResponse = networkResponse],
                              FromNetwork(networkResponse))]
    /\ UNCHANGED <<now, config, fetchCounter, otherFetchCounter, caches, current, requests, netCalls,
                   bgFetch, bgPut, bgDelete, sweeps, bgDone>>

\* network-first lines 250-267: the cache.match of the catch block has resolved
FallbackMatch(s) ==
    /\ turn[s].pc = "fallback"
    /\ LET t == turn[s]
           request == t.request
           cachedResponse == Match(caches[t.cache], request.url)
           t1 == [t EXCEPT !.cachedResponse = cachedResponse, !.lookups = @ + 1,
                           !.matchedAt = now]
       IN
       IF cachedResponse # NoEntry
          /\ isOlderThanMaxAge(cachedResponse, config.maxCacheAgeSeconds)
       THEN /\ bgDelete' = bgDelete \cup {[cache |-> t.cache, key |-> request.url]}
            /\ turn' = [turn EXCEPT ![s] =
                   Finished([t1 EXCEPT !.deleteCalls = @ \cup {request.url}],
                            Rejected(t.call))]
       ELSE IF cachedResponse # NoEntry
               /\ (isFresh(cachedResponse, TTLOf(request))
                   \/ isStale(cachedResponse, TTLOf(request), StaleTTLOf(request)))
       THEN /\ turn' = [turn EXCEPT ![s] = Finished(t1, FromCache(cachedResponse))]
            /\ UNCHANGED bgDelete
       ELSE /\ turn' = [turn EXCEPT ![s] = Finished(t1, Rejected(t.call))]
            /\ UNCHANGED bgDelete
    /\ UNCHANGED <<now, config, fetchCounter, otherFetchCounter, caches, current, requests, netCalls,
                   bgFetch, bgPut, sweeps, bgDone>>

\* lines 234, 273, 335: the awaited cache.put(request, responseToCache) has
\* resolved; return networkResponse
PutDone(s) ==
    /\ turn[s].pc = "put"
    /\ LET t == turn[s]
           key == t.request.url
           after == Put(caches[t.cache], key, t.responseToCache)
       IN  /\ caches' = [caches EXCEPT ![t.cache] = after]
           /\ turn' = [turn EXCEPT ![s] =
                  Finished([t EXCEPT !.written = @ \cup {key},
                                     !.wroteAfter =
                                         {turn[o].id : o \in {x \in Slots \ {s} :
                                                                turn[x].written # {}}},
                                     !.replaced = Match(caches[t.cache], key),
                                     !.stored = Match(after, key)],
                           FromNetwork(t.networkResponse))]
    /\ UNCHANGED <<now, config, fetchCounter, otherFetchCounter, current, requests, netCalls,
                   bgFetch, bgPut, bgDelete, sweeps, bgDone>>

----------------------------------------------------------------------------
(***************************************************************************)
(* Work that no turn awaits.                                               *)
(***************************************************************************)

\* The end of the background revalidation of network call `call`, started by
\* turn `owner` (history).
Ended(call, owner, how) ==
    [call |-> call, owner |-> owner, how |-> how, entry |-> NoEntry, at |-> Null]

\* An un-awaited cache.delete has removed `entry` (history).
Evicted(entry) ==
    [call |-> 0, owner |-> 0, how |-> "evicted", entry |-> entry, at |-> now]

\* lines 313-315: .catch(() => {}) of the background update leaves the cache alone
\* a failed revalidation that evicts the entry it could not refresh
RevalidationFailedEvicts(cs, b) == [cs EXCEPT ![b.cache] = Delete(@, b.key)]

RevalidationFailed(cs, b) == cs

\* stale-while-revalidate lines 304-315: the background customFetch settles.
\* A 2xx response is stamped and cache.put is called (not awaited); any other
\* response is dropped; an error is caught and ignored.
BgFetchSettles(b, outcome) ==
    /\ b \in bgFetch
    /\ bgFetch' = bgFetch \ {b}
    /\ LET networkResponse == NetworkResponse(b.call, outcome.status) IN
       IF ~outcome.throws /\ ShouldCache(networkResponse)
       THEN /\ bgPut' = bgPut \cup
                {[cache |-> b.cache, key |-> b.key,
                  response |-> addTimestamp(networkResponse), owner |-> b.owner]}
            /\ UNCHANGED bgDone
       ELSE /\ UNCHANGED bgPut
            /\ bgDone' = bgDone \cup
                   {Ended(b.call, b.owner,
                          IF outcome.throws THEN "ignored" ELSE "dropped")}
    /\ caches' = (IF outcome.throws THEN RevalidationFailed(caches, b) ELSE caches)
    /\ UNCHANGED <<now, config, fetchCounter, otherFetchCounter, current, turn, requests, netCalls,
                   bgDelete, sweeps>>

\* line 310: the un-awaited cache.put takes effect
BgPutApplied(p) ==
    /\ p \in bgPut
    /\ bgPut' = bgPut \ {p}
    /\ caches' = [caches EXCEPT ![p.cache] = Put(@, p.key, p.response)]
    /\ bgDone' = bgDone \cup {Ended(p.response.payload, p.owner, "stored")}
    /\ UNCHANGED <<now, config, fetchCounter, otherFetchCounter, current, turn, requests, netCalls,
                   bgFetch, bgDelete, sweeps>>

\* lines 255, 289 and helpers.js line 322: an un-awaited cache.delete takes effect
BgDeleteApplied(d) ==
    /\ d \in bgDelete
    /\ bgDelete' = bgDelete \ {d}
    /\ caches' = [caches EXCEPT ![d.cache] = Delete(@, d.key)]
    /\ bgDone' = IF Match(caches[d.cache], d.key) = NoEntry THEN bgDone
                 ELSE bgDone \cup {Evicted(Match(caches[d.cache], d.key))}
    /\ UNCHANGED <<now, config, fetchCounter, otherFetchCounter, current, turn, requests, netCalls,
                   bgFetch, bgPut, sweeps>>

\* cleanupOldCacheEntries lines 312-313: caches.open and cache.keys have
\* resolved.  A periodic call is dropped from `sweeps` when its loop has ended
\* (nothing awaits it); a manual call goes on to line 326.
SweepOpen(w) ==
    /\ w \in sweeps
    /\ w.phase = "open"
    /\ caches' = Opened
    /\ current' = OpenIndex
    /\ LET keys == Keys(Opened[OpenIndex])
           w1 == [w EXCEPT !.cache = OpenIndex, !.keys = keys,
                           !.phase = IF keys = {} THEN "settle" ELSE "visit",
                           !.before = IF w.manual THEN Opened[OpenIndex] ELSE {}]
       IN  sweeps' = IF keys = {} /\ ~w.manual THEN sweeps \ {w}
                     ELSE (sweeps \ {w}) \cup {w1}
    /\ UNCHANGED <<now, config, fetchCounter, otherFetchCounter, turn, requests, netCalls,
                   bgFetch, bgPut, bgDelete, bgDone>>

\* line 319 deleting the entries without timestamp as well
SweepExpiredOrUnstamped(response, maxAgeSeconds) ==
    response # NoEntry
    /\ (response.ts = Null \/ isOlderThanMaxAge(response, maxAgeSeconds))

\* line 319: response && isOlderThanMaxAge(response, maxAgeSeconds)
SweepExpired(response, maxAgeSeconds) ==
    response # NoEntry /\ isOlderThanMaxAge(response, maxAgeSeconds)

\* cleanupOldCacheEntries lines 317-324: one iteration of the loop, for key k
SweepVisit(w, k) ==
    /\ w \in sweeps
    /\ w.phase = "visit"
    /\ k \in w.keys
    /\ LET response == Match(caches[w.cache], k)
           rest == w.keys \ {k}
           expired == SweepExpired(response, w.maxAgeSeconds)
           w1 == [w EXCEPT !.keys = rest,
                           !.phase = IF rest = {} THEN "settle" ELSE "visit",
                           !.deletes = IF w.manual /\ expired THEN @ \cup {k} ELSE @,
                           !.seen = IF w.manual
                                    THEN @ \cup {[key |-> k, response |-> response,
                                                  at |-> now]}
                                    ELSE @]
       IN  /\ bgDelete' =
                  IF expired THEN bgDelete \cup {[cache |-> w.cache, key |-> k]}
                  ELSE bgDelete
           /\ sweeps' = IF rest = {} /\ ~w.manual THEN sweeps \ {w}
                        ELSE (sweeps \ {w}) \cup {w1}
    /\ UNCHANGED <<now, config, fetchCounter, otherFetchCounter, caches, current, turn, requests, netCalls,
                   bgFetch, bgPut, bgDone>>

\* A call of the exported cleanupOldCacheEntries(cacheName, maxAgeSeconds) by
\* the embedding code (part_003 line 346), one at a time.
ManualSweep(maxAgeSeconds) ==
    [NewSweep EXCEPT !.maxAgeSeconds = maxAgeSeconds, !.manual = TRUE]

CleanupOldCacheEntries(maxAgeSeconds) ==
    /\ \A w \in sweeps : ~w.manual
    /\ sweeps' = sweeps \cup {ManualSweep(maxAgeSeconds)}
    /\ UNCHANGED <<now, config, fetchCounter, otherFetchCounter, caches, current, turn, requests, netCalls,
                   bgFetch, bgPut, bgDelete, bgDone>>

\* cleanupOldCacheEntries lines 326-335: every promise of cleanupPromises has
\* settled; the function returns.
SweepSettled(w) ==
    /\ w \in sweeps
    /\ w.manual
    /\ w.phase = "settle"
    /\ \A k \in w.deletes : [cache |-> w.cache, key |-> k] \notin bgDelete
    /\ sweeps' = (sweeps \ {w}) \cup {[w EXCEPT !.phase = "returned"]}
    /\ UNCHANGED <<now, config, fetchCounter, otherFetchCounter, caches, current, turn, requests, netCalls,
                   bgFetch, bgPut, bgDelete, bgDone>>

\* The clock advances.
Tick ==
    /\ now < MaxTicks * MsPerSecond
    /\ now' = now + MsPerSecond
    /\ UNCHANGED <<config, fetchCounter, otherFetchCounter, caches, current, turn, requests, netCalls,
                   bgFetch, bgPut, bgDelete, sweeps, bgDone>>

----------------------------------------------------------------------------
(***************************************************************************)
(* Specification Spec: one handler instance serving requests for one       *)
(* resource, one request turn at a time; background work of earlier turns  *)
(* and the clock run in between.                                           *)
(***************************************************************************)
PathApi == <<"/", "a">>
PathUsers == <<"/", "a", "/", "u">>

UsersUrl == Url(SelfOrigin, PathUsers, "")

Get(url, strategy, ttl, staleTtl) ==
    [method |-> "GET", url |-> url, clear |-> NoHeader, invalidate |-> <<>>,
     ttl |-> ttl, staleTtl |-> staleTtl, strategy |-> strategy]

Mutation(method, url) ==
    [method |-> method, url |-> url, clear |-> NoHeader, invalidate |-> <<>>,
     ttl |-> NoHeader, staleTtl |-> NoHeader, strategy |-> NoHeader]

Clear(method, url) ==
    [method |-> method, url |-> url, clear |-> "true", invalidate |-> <<>>,
     ttl |-> NoHeader, staleTtl |-> NoHeader, strategy |-> NoHeader]

\* <<X-SW-Cache-TTL-Seconds, X-SW-Cache-Stale-TTL-Seconds>> of the GET requests
TTLHeaders ==
    {<<NoHeader, NoHeader>>, <<NoHeader, "0">>, <<NoHeader, "3">>, <<"3", NoHeader>>}

Requests ==
    {Get(UsersUrl, st, h[1], h[2]) :
        st \in {NoHeader, "network-first", "stale-while-revalidate"},
        h \in TTLHeaders}
    \cup {Mutation("POST", UsersUrl), Clear("GET", UsersUrl),
          [Clear("POST", UsersUrl) EXCEPT !.clear = "",
                                          !.invalidate = <<Url("", PathUsers, "")>>]}

Config ==
    [scope |-> << <<"/", "a", "/">> >>,
     defaultStrategy |-> "cache-first",
     defaultTTLSeconds |-> 1,
     defaultStaleTTLSeconds |-> 2,
     maxCacheAgeSeconds |-> 2,
     inferInvalidation |-> TRUE]

Init ==
    /\ now = 0
    /\ config = Config
    /\ fetchCounter = 0
    /\ otherFetchCounter = 0
    /\ caches = <<>>
    /\ current = 0
    /\ turn = [s \in Slots |-> IdleTurn]
    /\ requests = 0
    /\ netCalls = 0
    /\ bgFetch = {}
    /\ bgPut = {}
    /\ bgDelete = {}
    /\ sweeps = {}
    /\ bgDone = {}

Background ==
    \/ \E b \in bgFetch, outcome \in Outcomes : BgFetchSettles(b, outcome)
    \/ \E p \in bgPut : BgPutApplied(p)
    \/ \E d \in bgDelete : BgDeleteApplied(d)
    \/ \E w \in sweeps : SweepOpen(w)
    \/ \E w \in sweeps : \E k \in w.keys : SweepVisit(w, k)
    \/ Tick

TurnStep(s) ==
    \/ ClearCacheDone(s)
    \/ InvalidateStep(s)
    \/ MatchDone(s)
    \/ DeleteDone(s)
    \/ OpenDone(s)
    \/ \E outcome \in Outcomes : FetchSettles(s, outcome)
    \/ FallbackMatch(s)
    \/ PutDone(s)

Next ==
    \/ \E request \in Requests : HandleRequest(1, request)
    \/ TurnStep(1)
    \/ Background

Spec == Init /\ [][Next]_vars

----------------------------------------------------------------------------
(***************************************************************************)
(* Vocabulary of the properties.  The ages are computed here from the      *)
(* recorded instants, not by the helpers of the code.                      *)
(***************************************************************************)
FreshAt(entry, ttl, at) ==
    entry.ts # Null /\ at - entry.ts < ttl * 1000

StaleAt(entry, ttl, staleTTL, at) ==
    /\ entry.ts # Null
    /\ staleTTL # Null
    /\ at - entry.ts >= ttl * 1000
    /\ at - entry.ts < staleTTL * 1000

ExpiredAt(entry, maxAgeSeconds, at) ==
    entry.ts # Null /\ at - entry.ts >= maxAgeSeconds * 1000

\* A same-origin GET without clear or invalidation directive, with a positive
\* resolved TTL, in scope or carrying a TTL directive.
EngineRequest(request) ==
    /\ request.method = "GET"
    /\ request.clear = NoHeader
    /\ request.invalidate = <<>>
    /\ request.url.origin = SelfOrigin
    /\ TTLOf(request) > 0
    /\ \/ request.ttl # NoHeader
       \/ matchesScope(request.url, config.scope, config.defaultTTLSeconds)

UnderStrategy(t, strategy) ==
    /\ t.pc # "idle"
    /\ EngineRequest(t.request)
    /\ StrategyOf(t.request) = strategy

\* The turn got `t.networkResponse` from its own network call and returned it.
ReturnedNetworkResponse(t) ==
    /\ t.result.kind = "network"
    /\ t.result.response.payload = t.call
    /\ t.result.response.status = t.networkResponse.status
    /\ t.networkResponse.payload = t.call

\* The turn's awaited write put the network response under the request URL,
\* stamped with the instant the response arrived.
StoredNetworkResponse(t) ==
    /\ t.written = {t.request.url}
    /\ t.stored = [status |-> t.networkResponse.status, payload |-> t.call,
                   ts |-> t.stampedAt]
    /\ t.stampedAt # Null
    /\ t.stampedAt <= t.doneAt

NoBackgroundWorkOf(t) ==
    /\ \A b \in bgFetch : b.owner # t.id
    /\ \A p \in bgPut : p.owner # t.id
    /\ \A d \in bgDone : d.owner # t.id

----------------------------------------------------------------------------
\* C1: cache-first round trip.  A cache-first read that finds no entry issues
\* exactly one network call, returns the network response and stores it iff it
\* is 2xx; a cache-first read that finds an entry younger than ttl*1000 ms
\* returns that entry in the same step and issues no network call.
C1_CacheFirstRoundTrip ==
    \A s \in Slots :
        LET t == turn[s]
            e == t.cachedResponse
        IN  (UnderStrategy(t, "cache-first") /\ t.pc = "done") =>
                /\ e = NoEntry =>
                      /\ t.fetches = 1
                      /\ ~t.threw =>
                            /\ ReturnedNetworkResponse(t)
                            /\ IF t.networkResponse.status \in 200..299
                               THEN StoredNetworkResponse(t)
                               ELSE t.written = {}
                /\ (e # NoEntry /\ FreshAt(e, TTLOf(t.request), t.matchedAt)) =>
                      /\ t.result = FromCache(e)
                      /\ t.fetches = 0
                      /\ t.doneAt = t.matchedAt

\* C1 witness: the second request is a cache-first read that returned the
\* payload of the first request's network call; no second call was made.
C1_Witness ==
    /\ requests = 2
    /\ netCalls = 1
    /\ UnderStrategy(turn[1], "cache-first")
    /\ turn[1].pc = "done"
    /\ turn[1].result.kind = "cached"
    /\ turn[1].result.response.payload = 1
    /\ turn[1].fetches = 0

\* C2: every entry in a cache, and every entry on its way into one, has a 2xx
\* status.
C2_OnlyOkCached ==
    /\ \A i \in DOMAIN caches : \A p \in caches[i] : p.response.status \in 200..299
    /\ \A p \in bgPut : p.response.status \in 200..299
    /\ \A s \in Slots : turn[s].written # {} => turn[s].stored.status \in 200..299

\* C2 witness: a background revalidation got a non-2xx response and dropped it,
\* a request turn returned a non-2xx response, and the cache holds an entry.
C2_Witness ==
    /\ \E d \in bgDone : d.how = "dropped"
    /\ turn[1].pc = "done"
    /\ turn[1].result.kind = "network"
    /\ turn[1].result.response.status = 500
    /\ \E i \in DOMAIN caches : caches[i] # {}

\* C3: under cache-first, when the network call throws, the turn resolves with
\* the looked-up entry iff that entry is stale (when the error is caught) and
\* was not retention-expired (when it was looked up); otherwise it rejects
\* with the error thrown.
C3_CacheFirstOfflineFallback ==
    \A s \in Slots :
        LET t == turn[s]
            e == t.cachedResponse
            r == t.request
        IN  (UnderStrategy(t, "cache-first") /\ t.pc = "done" /\ t.threw) =>
                IF /\ e # NoEntry
                   /\ StaleAt(e, TTLOf(r), StaleTTLOf(r), t.doneAt)
                   /\ ~ExpiredAt(e, config.maxCacheAgeSeconds, t.matchedAt)
                THEN t.result = FromCache(e)
                ELSE t.result = Rejected(t.call)

\* C4: a network-first turn looks nothing up before its network call, makes
\* exactly one call, and on a 2xx response replaces the entry by the response
\* stamped with the instant it arrived, and returns the response.
C4_NetworkFirst ==
    \A s \in Slots :
        LET t == turn[s] IN
        UnderStrategy(t, "network-first") =>
            /\ t.fetches <= 1
            /\ t.lookups > 0 => (t.fetches = 1 /\ t.threw)
            /\ t.pc = "done" => t.fetches = 1
            /\ (t.pc = "done" /\ ~t.threw /\ t.networkResponse.status \in 200..299) =>
                  /\ ReturnedNetworkResponse(t)
                  /\ StoredNetworkResponse(t)
                  /\ t.lookups = 0

\* C4 witness: a network-first turn replaced an entry that was still fresh.
C4_Witness ==
    /\ UnderStrategy(turn[1], "network-first")
    /\ turn[1].pc = "done"
    /\ turn[1].replaced # NoEntry
    /\ FreshAt(turn[1].replaced, TTLOf(turn[1].request), turn[1].stampedAt)
    /\ turn[1].stored.payload = turn[1].call
    /\ turn[1].stored.payload # turn[1].replaced.payload

\* C5: under network-first, when the network call throws, the turn resolves
\* with the entry it then finds iff the entry is not retention-expired and is
\* fresh or stale; otherwise it rejects with the error thrown, and for a
\* retention-expired entry it has called cache.delete.
C5_NetworkFirstOfflineFallback ==
    \A s \in Slots :
        LET t == turn[s]
            e == t.cachedResponse
            r == t.request
        IN  (UnderStrategy(t, "network-first") /\ t.pc = "done" /\ t.threw) =>
                IF /\ e # NoEntry
                   /\ ~ExpiredAt(e, config.maxCacheAgeSeconds, t.matchedAt)
                   /\ \/ FreshAt(e, TTLOf(r), t.matchedAt)
                      \/ StaleAt(e, TTLOf(r), StaleTTLOf(r), t.matchedAt)
                THEN /\ t.result = FromCache(e)
                     /\ t.deleteCalls = {}
                ELSE /\ t.result = Rejected(t.call)
                     /\ (e # NoEntry /\ ExpiredAt(e, config.maxCacheAgeSeconds, t.matchedAt))
                            => t.deleteCalls = {r.url}

\* C5 witness: a network-first turn whose call threw resolved with a stale entry.
C5_Witness ==
    /\ UnderStrategy(turn[1], "network-first")
    /\ turn[1].pc = "done"
    /\ turn[1].threw
    /\ turn[1].result.kind = "cached"
    /\ StaleAt(turn[1].cachedResponse, TTLOf(turn[1].request),
               StaleTTLOf(turn[1].request), turn[1].matchedAt)

----------------------------------------------------------------------------
(***************************************************************************)
(* Specification SpecRevalidate: the handler with stale-while-revalidate   *)
(* as its default strategy.  The network call of a background revalidation *)
(* settles and the cache.put it makes is carried out (weak fairness): both *)
(* are promises the event loop runs once they are ready.                   *)
(***************************************************************************)
RevalidateRequests ==
    {Get(UsersUrl, NoHeader, h[1], h[2]) : h \in TTLHeaders}

RevalidateConfig == [Config EXCEPT !.defaultStrategy = "stale-while-revalidate"]

InitRevalidate ==
    /\ now = 0
    /\ config = RevalidateConfig
    /\ fetchCounter = 0
    /\ otherFetchCounter = 0
    /\ caches = <<>>
    /\ current = 0
    /\ turn = [s \in Slots |-> IdleTurn]
    /\ requests = 0
    /\ netCalls = 0
    /\ bgFetch = {}
    /\ bgPut = {}
    /\ bgDelete = {}
    /\ sweeps = {}
    /\ bgDone = {}

NextRevalidate ==
    \/ \E request \in RevalidateRequests : HandleRequest(1, request)
    \/ MatchDone(1)
    \/ \E outcome \in Outcomes : FetchSettles(1, outcome)
    \/ PutDone(1)
    \/ Background

RevalidationSettles == \E b \in bgFetch, outcome \in Outcomes : BgFetchSettles(b, outcome)
RevalidationWritten == \E p \in bgPut : BgPutApplied(p)

SpecRevalidate ==
    /\ InitRevalidate
    /\ [][NextRevalidate]_vars
    /\ WF_vars(RevalidationSettles)
    /\ WF_vars(RevalidationWritten)

\* C6, the request turn: a stale-while-revalidate read that finds a stale, not
\* retention-expired entry returns it in the step in which the lookup resolved,
\* having started one network call that it does not await.
C6_StaleHit ==
    \A s \in Slots :
        LET t == turn[s]
            e == t.cachedResponse
            r == t.request
        IN  (/\ UnderStrategy(t, "stale-while-revalidate")
             /\ t.pc = "done"
             /\ e # NoEntry
             /\ StaleAt(e, TTLOf(r), StaleTTLOf(r), t.matchedAt)
             /\ ~ExpiredAt(e, config.maxCacheAgeSeconds, t.matchedAt)) =>
                /\ t.result = FromCache(e)
                /\ t.doneAt = t.matchedAt
                /\ t.fetches = 1
                /\ ~t.threw
                /\ t.written = {}
                /\ \/ \E b \in bgFetch : b.owner = t.id /\ b.key = r.url
                   \/ \E p \in bgPut : p.owner = t.id /\ p.key = r.url
                   \/ \E d \in bgDone : d.owner = t.id

\* C6, the background write: a 2xx response of a revalidation is stamped with
\* the instant it arrived, and when its cache.put is carried out the cache
\* holds that entry under the key.
C6_BackgroundWrite ==
    /\ \A p \in bgPut' \ bgPut :
          /\ p.response.ts = now
          /\ p.response.status \in 200..299
          /\ \E b \in bgFetch \ bgFetch' :
                b.call = p.response.payload /\ b.key = p.key /\ b.cache = p.cache
    /\ \A p \in bgPut \ bgPut' :
          /\ Match(caches'[p.cache], p.key) = p.response
          /\ Ended(p.response.payload, p.owner, "stored") \in bgDone'

C7_FreshHit ==
    \A s \in Slots :
        LET t == turn[s]
            e == t.cachedResponse
            r == t.request
        IN  (/\ UnderStrategy(t, "stale-while-revalidate")
             /\ t.pc = "done"
             /\ e # NoEntry
             /\ FreshAt(e, TTLOf(r), t.matchedAt)
             /\ ~ExpiredAt(e, config.maxCacheAgeSeconds, t.matchedAt)) =>
                /\ t.result = FromCache(e)
                /\ t.doneAt = t.matchedAt
                /\ t.fetches = 0
                /\ t.call = 0
                /\ NoBackgroundWorkOf(t)
                /\ t.written = {}
                /\ t.deleted = {}
                /\ t.deleteCalls = {}
                /\ ~t.cleared

\* C7 witness: such a read, of an entry that an earlier turn wrote.
C7_Witness ==
    /\ UnderStrategy(turn[1], "stale-while-revalidate")
    /\ turn[1].pc = "done"
    /\ turn[1].cachedResponse # NoEntry
    /\ FreshAt(turn[1].cachedResponse, TTLOf(turn[1].request), turn[1].matchedAt)
    /\ ~ExpiredAt(turn[1].cachedResponse, config.maxCacheAgeSeconds, turn[1].matchedAt)
    /\ turn[1].result.kind = "cached"
    /\ netCalls = 1

\* C8: a stale-while-revalidate read that finds no entry, or one neither fresh
\* nor stale, awaits exactly one network call; a 2xx response is stored and
\* returned, any other response is returned and not stored, and an error
\* rejects the promise with no fallback to the cache.
C8_NetworkPath ==
    \A s \in Slots :
        LET t == turn[s]
            e == t.cachedResponse
            r == t.request
        IN  (/\ UnderStrategy(t, "stale-while-revalidate")
             /\ t.matchedAt # Null
             /\ \/ e = NoEntry
                \/ ~(\/ FreshAt(e, TTLOf(r), t.matchedAt)
                     \/ StaleAt(e, TTLOf(r), StaleTTLOf(r), t.matchedAt))) =>
                /\ t.pc \in {"fetch", "put", "done"}
                /\ t.fetches = 1
                /\ t.lookups = 1
                /\ NoBackgroundWorkOf(t)
                /\ t.pc = "done" =>
                      IF t.threw THEN t.result = Rejected(t.call)
                      ELSE /\ ReturnedNetworkResponse(t)
                           /\ IF t.networkResponse.status \in 200..299
                              THEN StoredNetworkResponse(t)
                              ELSE t.written = {}

\* C8 witness: the lookup found an entry too old to be stale, the network call
\* threw, and the promise rejected.
C8_Witness ==
    /\ UnderStrategy(turn[1], "stale-while-revalidate")
    /\ turn[1].pc = "done"
    /\ turn[1].cachedResponse # NoEntry
    /\ ~ExpiredAt(turn[1].cachedResponse, config.maxCacheAgeSeconds, turn[1].matchedAt)
    /\ turn[1].threw
    /\ turn[1].result = Rejected(turn[1].call)

\* C9, the step: when the network call of a background revalidation throws,
\* the step that handles the error changes no cache and no request turn.
C9_ErrorIgnored ==
    (\E d \in bgDone' \ bgDone : d.how = "ignored") => (caches' = caches /\ turn' = turn)

\* C9, the caller: the turn that started the revalidation has resolved with
\* the stale entry.
C9_CallerUnaffected ==
    \A s \in Slots :
        LET t == turn[s] IN
        (\E d \in bgDone : d.how = "ignored" /\ d.owner = t.id) =>
            /\ t.pc = "done"
            /\ t.result = FromCache(t.cachedResponse)
            /\ ~t.threw

\* C9: a failed background revalidation reaches neither the caller nor the cache.
C9_BackgroundFailure == [][C9_ErrorIgnored]_vars /\ []C9_CallerUnaffected

\* C9 witness: the revalidation of the latest turn has thrown; the turn stays
\* resolved with the stale entry and the cache still holds that entry.
C9_Witness ==
    /\ turn[1].pc = "done"
    /\ turn[1].result.kind = "cached"
    /\ \E d \in bgDone : d.how = "ignored" /\ d.owner = turn[1].id
    /\ Match(caches[turn[1].cache], turn[1].request.url) = turn[1].cachedResponse


----------------------------------------------------------------------------
(***************************************************************************)
(* Specification SpecInvalidate: reads of several resources fill the       *)
(* cache, mutations of these and other resources invalidate it.  The clock *)
(* stands still: invalidation does not read it.                            *)
(***************************************************************************)
PathRoot == <<"/">>
PathUser == <<"/", "a", "/", "u", "/", "1">>
PathPosts == <<"/", "a", "/", "p">>
\* pathnames with an empty first segment, as in https://example.com//u/1
PathSlashUsers == <<"/", "/", "u">>
PathSlashUser == <<"/", "/", "u", "/", "1">>
PathSlashes == <<"/", "/", "/", "x">>

CachedUrls ==
    {Url(SelfOrigin, PathApi, ""), Url(SelfOrigin, PathUsers, ""),
     Url(SelfOrigin, PathUsers, "?q"), Url(SelfOrigin, PathUser, ""),
     Url(SelfOrigin, PathPosts, ""), Url(SelfOrigin, PathSlashUsers, "")}

MutatedUrls ==
    {Url(SelfOrigin, PathRoot, ""), Url(SelfOrigin, PathApi, ""),
     Url(SelfOrigin, PathUsers, ""), Url(SelfOrigin, PathUser, ""),
     Url(SelfOrigin, PathUser, "?q"), Url(SelfOrigin, PathSlashUser, ""),
     Url(SelfOrigin, PathSlashes, "")}

\* X-SW-Cache-Invalidate values: a path is a URL without origin
RelativePath(pathname, search) == Url("", pathname, search)

\* an origin that is not the service worker's
OtherOrigin == "https://other.example"

Directives ==
    {<<RelativePath(PathPosts, "")>>,
     <<Url(OtherOrigin, PathUsers, "")>>,
     <<RelativePath(PathUsers, "?q")>>,
     <<Url(SelfOrigin, PathPosts, "")>>,
     <<RelativePath(PathPosts, ""), RelativePath(PathApi, "")>>}

Invalidating(request, directives) == [request EXCEPT !.invalidate = directives]

InvalidateRequests ==
    {Get(url, NoHeader, NoHeader, NoHeader) : url \in CachedUrls}
    \cup {Mutation(method, url) :
            method \in {"POST", "PATCH", "PUT", "DELETE"}, url \in MutatedUrls}
    \cup {Mutation("POST", Url(OtherOrigin, PathUser, ""))}
    \cup {Invalidating(Mutation(method, Url(SelfOrigin, PathUser, "")), d) :
            method \in {"POST", "DELETE"}, d \in Directives}
    \cup {Invalidating(Get(Url(SelfOrigin, PathUser, ""), NoHeader, NoHeader, NoHeader), d) :
            d \in Directives}

InvalidateConfig == [Config EXCEPT !.scope = <<PathRoot>>]

InitInvalidate ==
    /\ now = 0
    /\ config = InvalidateConfig
    /\ fetchCounter = 0
    /\ otherFetchCounter = 0
    /\ caches = <<>>
    /\ current = 0
    /\ turn = [s \in Slots |-> IdleTurn]
    /\ requests = 0
    /\ netCalls = 0
    /\ bgFetch = {}
    /\ bgPut = {}
    /\ bgDelete = {}
    /\ sweeps = {}
    /\ bgDone = {}

NextInvalidate ==
    \/ \E request \in InvalidateRequests : HandleRequest(1, request)
    \/ InvalidateStep(1)
    \/ MatchDone(1)
    \/ \E outcome \in Outcomes : FetchSettles(1, outcome)
    \/ PutDone(1)
    \/ \E w \in sweeps : SweepOpen(w)
    \/ \E w \in sweeps : \E k \in w.keys : SweepVisit(w, k)

SpecInvalidate == InitInvalidate /\ [][NextInvalidate]_vars

\* The number of segments of a pathname: "/" has none, "/a" one, "/a/u" two.
SegmentCount(path) ==
    Cardinality({i \in 1..Len(path) : path[i] = "/" /\ i < Len(path)})

\* The pathname without its final segment.
RECURSIVE StripSegment(_)
StripSegment(path) ==
    IF path = <<>> THEN <<>>
    ELSE IF path[Len(path)] = "/" THEN SubSeq(path, 1, Len(path) - 1)
    ELSE StripSegment(SubSeq(path, 1, Len(path) - 1))

\* The request's own URL, and with two segments or more the URL of the
\* request origin and the request path without its final segment.
InferredTargets(url) ==
    {url} \cup
    IF SegmentCount(url.pathname) >= 2
    THEN {Url(url.origin, StripSegment(url.pathname), "")}
    ELSE {}

InferringMutation(t) ==
    /\ t.pc # "idle"
    /\ IsMutation(t.request.method)
    /\ t.request.clear = NoHeader
    /\ t.request.invalidate = <<>>
    /\ config.inferInvalidation

\* C10: a POST, PATCH, PUT or DELETE with inference enabled and no explicit
\* invalidation directive invalidates exactly its own URL and, when its path
\* has two segments or more, the URL of the request origin and the path
\* without its final segment; every entry it removes from the store has the
\* pathname of one of these two.
C10_InferredInvalidationTargets ==
    \A s \in Slots :
        LET t == turn[s]
            url == t.request.url
        IN  InferringMutation(t) =>
                /\ {t.targets[i] : i \in 1..Len(t.targets)} = InferredTargets(url)
                /\ \A k \in t.deleted :
                       /\ k.origin = url.origin
                       /\ k.pathname \in {x.pathname : x \in InferredTargets(url)}

\* A mutation of /a/u/1 has removed the entry of /a/u and left the one of /a/p.
C10_Witness ==
    /\ InferringMutation(turn[1])
    /\ turn[1].pc = "done"
    /\ turn[1].request.url = Url(SelfOrigin, PathUser, "")
    /\ turn[1].deleted = {Url(SelfOrigin, PathUsers, "")}
    /\ current # 0
    /\ Keys(caches[current]) = {Url(SelfOrigin, PathPosts, "")}


\* A directive resolved against an origin: a full URL is kept, a path gets
\* the origin in front.
Resolved(directive, origin) ==
    IF directive.origin # "" THEN directive
    ELSE Url(origin, directive.pathname, directive.search)

ExplicitTargets(request) ==
    {Resolved(request.invalidate[i], request.url.origin) :
        i \in 1..Len(request.invalidate)}

ExplicitInvalidation(t) ==
    /\ t.pc # "idle"
    /\ t.request.clear = NoHeader
    /\ t.request.invalidate # <<>>

\* C11: a request with explicit invalidation directives invalidates exactly
\* the directives resolved against its origin: every entry it removes has the
\* origin and pathname of one of them, so the request's own URL and its parent
\* stay cached unless a directive names them, whatever the method and with
\* inference enabled.
C11_ExplicitDirectivesOnly ==
    \A s \in Slots :
        LET t == turn[s] IN
        ExplicitInvalidation(t) =>
            /\ {t.targets[i] : i \in 1..Len(t.targets)} = ExplicitTargets(t.request)
            /\ \A k \in t.deleted :
                  \E x \in ExplicitTargets(t.request) :
                      k.origin = x.origin /\ k.pathname = x.pathname

\* C11 witness: a POST of /a/u/1 with the directive /a/p has removed the entry
\* of /a/p; the entry of /a/u/1 is still cached.
C11_Witness ==
    /\ ExplicitInvalidation(turn[1])
    /\ turn[1].pc = "done"
    /\ turn[1].request.method = "POST"
    /\ config.inferInvalidation
    /\ turn[1].request.url = Url(SelfOrigin, PathUser, "")
    /\ turn[1].deleted = {Url(SelfOrigin, PathPosts, "")}
    /\ current # 0
    /\ Keys(caches[current]) = {Url(SelfOrigin, PathUser, "")}


\* invalidateCache has applied at least one of its urls
TargetApplied(t) == Len(t.pathsToInvalidate) < Len(t.targets)

InvalidationPath(t) ==
    /\ t.pc # "idle"
    /\ t.request.clear = NoHeader
    /\ \/ t.request.invalidate # <<>>
       \/ IsMutation(t.request.method) /\ config.inferInvalidation

\* No entry of the cache has the origin and pathname of one of the urls.
NoneCached(cache, urls) ==
    \A p \in cache : \A i \in 1..Len(urls) :
        p.key.origin # urls[i].origin \/ p.key.pathname # urls[i].pathname

\* C13: on the invalidation path every delete of the target set is done
\* before the network call is issued, exactly one network call is made, the
\* caller gets its response or its error, the store is never read and never
\* written, and the deletions stand when the call fails.
C13_InvalidateThenFetch ==
    \A s \in Slots :
        LET t == turn[s] IN
        InvalidationPath(t) =>
            /\ t.lookups = 0
            /\ t.written = {}
            /\ t.fetches <= 1
            /\ t.fetches = 1 => (t.targets # <<>> /\ t.pathsToInvalidate = <<>>)
            /\ t.pc = "done" =>
                  /\ t.fetches = 1
                  /\ IF t.threw
                     THEN /\ t.result = Rejected(t.call)
                          /\ NoneCached(caches[t.cache], t.targets)
                     ELSE \E status \in Statuses :
                              t.result = FromNetwork(NetworkResponse(t.call, status))

\* C13 witness: a GET with the directive /a/p has removed the entry of /a/p,
\* its network call has thrown, and the entry is still gone.
C13_Witness ==
    /\ InvalidationPath(turn[1])
    /\ turn[1].request.method = "GET"
    /\ turn[1].pc = "done"
    /\ turn[1].threw
    /\ turn[1].result = Rejected(turn[1].call)
    /\ turn[1].deleted = {Url(SelfOrigin, PathPosts, "")}
    /\ NoneCached(caches[turn[1].cache], turn[1].targets)


----------------------------------------------------------------------------
(***************************************************************************)
(* Specification SpecDispatch: handlers of several configurations (scope   *)
(* list, default TTL, inference switch) and several values of the fetch    *)
(* counter serve reads with and without a TTL header, in and out of scope, *)
(* of this and of another origin, mutations and other methods.  The clock  *)
(* stands still: the dispatch does not read it.                            *)
(***************************************************************************)
PathScope == <<"/", "a", "/">>
PathOutside == <<"/", "p">>

DispatchConfigs ==
    {[Config EXCEPT !.scope = scope, !.defaultTTLSeconds = ttl,
                    !.inferInvalidation = infer] :
        scope \in {<<>>, <<PathScope>>}, ttl \in {0, 1}, infer \in BOOLEAN}

\* values of fetchCounter: a new handler, one whose next counted request is
\* the hundredth, and one in between
FetchCounters == {0, 50, CleanupInterval - 1}

\* X-SW-Cache-TTL-Seconds values
TTLValues == {NoHeader, "0", "3", "-1", "abc"}

DispatchUrls ==
    {UsersUrl, Url(SelfOrigin, PathOutside, ""), Url(OtherOrigin, PathUsers, "")}

OtherMethod(method, url, ttl) ==
    [method |-> method, url |-> url, clear |-> NoHeader, invalidate |-> <<>>,
     ttl |-> ttl, staleTtl |-> NoHeader, strategy |-> NoHeader]

DispatchRequests ==
    {Get(url, NoHeader, ttl, NoHeader) : url \in DispatchUrls, ttl \in TTLValues}
    \cup {OtherMethod(method, UsersUrl, ttl) :
            method \in {"HEAD", "OPTIONS"}, ttl \in {NoHeader, "3"}}
    \cup {Mutation(method, UsersUrl) : method \in {"POST", "DELETE"}}

InitDispatch ==
    /\ now = 0
    /\ config \in DispatchConfigs
    /\ fetchCounter \in FetchCounters
    /\ otherFetchCounter = 0
    /\ caches = <<>>
    /\ current = 0
    /\ turn = [s \in Slots |-> IdleTurn]
    /\ requests = 0
    /\ netCalls = 0
    /\ bgFetch = {}
    /\ bgPut = {}
    /\ bgDelete = {}
    /\ sweeps = {}
    /\ bgDone = {}

NextDispatch ==
    \/ \E request \in DispatchRequests : HandleRequest(1, request)
    \/ InvalidateStep(1)
    \/ MatchDone(1)
    \/ \E outcome \in Outcomes : FetchSettles(1, outcome)
    \/ PutDone(1)
    \/ \E w \in sweeps : SweepOpen(w)
    \/ \E w \in sweeps : \E k \in w.keys : SweepVisit(w, k)

SpecDispatch == InitDispatch /\ [][NextDispatch]_vars

\* The request carries neither a clear nor an invalidation directive.
Plain(request) == request.clear = NoHeader /\ request.invalidate = <<>>

\* The turn has ended with the not-handled result and has done nothing else:
\* no network call, no lookup, no write, no delete.
NotHandled(t) ==
    /\ t.pc = "done"
    /\ t.result = Unhandled
    /\ t.fetches = 0
    /\ t.lookups = 0
    /\ t.written = {}
    /\ t.deleted = {}
    /\ t.deleteCalls = {}
    /\ t.targets = <<>>
    /\ ~t.cleared
    /\ NoBackgroundWorkOf(t)


\* C14, the turn: the handler returns the not-handled result in the step that
\* receives the request; it has deleted nothing, made no network call and
\* not advanced the fetch counter.
C14_InferenceDisabled ==
    \A s \in Slots :
        LET t == turn[s] IN
        (/\ t.pc # "idle"
         /\ IsMutation(t.request.method)
         /\ Plain(t.request)
         /\ ~config.inferInvalidation) =>
            /\ NotHandled(t)
            /\ t.storeBefore = {} /\ t.storeAfter = {}
            /\ ~t.counted /\ ~t.swept

\* C14 witness: with inference disabled a DELETE of /a/u has been answered
\* with the not-handled result while the cache holds the entry of /a/u.
C14_Witness ==
    /\ ~config.inferInvalidation
    /\ turn[1].pc = "done"
    /\ turn[1].request = Mutation("DELETE", UsersUrl)
    /\ turn[1].result = Unhandled
    /\ netCalls = 1
    /\ current # 0
    /\ UsersUrl \in Keys(caches[current])

\* C14, the step: the step that receives such a request changes no cache.
C14_StoreUnchanged ==
    (\E s \in Slots :
        /\ turn'[s].id # turn[s].id
        /\ IsMutation(turn'[s].request.method)
        /\ Plain(turn'[s].request)
        /\ ~config.inferInvalidation) =>
    (caches' = caches /\ current' = current /\ netCalls' = netCalls)

\* C14: with inference disabled, a POST, PATCH, PUT or DELETE without clear
\* or invalidation directive gets the not-handled result, and the step that
\* receives it changes no cache and makes no network call.
C14_NoInvalidation == []C14_InferenceDisabled /\ [][C14_StoreUnchanged]_vars


\* caches.open(cacheName) would return a cache without entries.
LiveCacheEmpty == current = 0 \/ caches[current] = {}

ClearRequest(t) == t.pc # "idle" /\ t.request.clear # NoHeader

OptOutRequest(t) ==
    /\ t.pc # "idle"
    /\ t.request.method = "GET"
    /\ t.request.url.origin = SelfOrigin
    /\ t.request.ttl = "0"
    /\ Plain(t.request)

\* C16: whatever the fetch counter, a same-origin GET with the TTL directive 0
\* gets the not-handled result and causes no store read, write or delete and
\* no network call: the turn does none, and the request starts no cleanup
\* (cleanupOldCacheEntries opens the cache, reads its keys and entries and
\* deletes the expired ones).
C16_TTLZeroTouchesNothing ==
    \A s \in Slots :
        LET t == turn[s] IN
        OptOutRequest(t) => (NotHandled(t) /\ ~t.swept)

\* C16 witness: the cache holds the entry of /a/u, and a GET of /a/u with
\* TTL 0, not the first and not the hundredth counted request, has been
\* answered with the not-handled result without starting a cleanup.
C16_Witness ==
    /\ OptOutRequest(turn[1])
    /\ turn[1].request.url = UsersUrl
    /\ NotHandled(turn[1])
    /\ ~turn[1].swept
    /\ current # 0
    /\ UsersUrl \in Keys(caches[current])


\* A same-origin GET without clear or invalidation directive.
PlainRead(t) ==
    /\ t.pc # "idle"
    /\ t.request.method = "GET"
    /\ t.request.url.origin = SelfOrigin
    /\ Plain(t.request)

\* The resolved TTL of the request is positive: the directive when there is
\* one, the default TTL otherwise.
PositiveTTL(request) ==
    IF request.ttl = NoHeader THEN config.defaultTTLSeconds > 0
    ELSE request.ttl \in {"1", "2", "3", "4"}

\* The URL path starts with a configured scope prefix.
InScope(url) ==
    \E i \in 1..Len(config.scope) :
        /\ Len(config.scope[i]) <= Len(url.pathname)
        /\ \A j \in 1..Len(config.scope[i]) : url.pathname[j] = config.scope[i][j]

\* The turn has entered a strategy.
Dispatched(t) ==
    \/ t.pc \in {"match", "open", "delete", "fetch", "put", "fallback"}
    \/ t.pc = "done" /\ t.result # Unhandled

\* C17: a same-origin GET without clear or invalidation directive reaches the
\* strategy engine iff its resolved TTL is positive and its path starts with a
\* scope prefix, or the scope list is empty and the default TTL is positive,
\* or it carries a TTL directive; otherwise it gets the not-handled result
\* and makes no network call.
C17_ScopeAndTTLGate ==
    \A s \in Slots :
        LET t == turn[s]
            r == t.request
        IN  PlainRead(t) =>
                IF /\ PositiveTTL(r)
                   /\ \/ InScope(r.url)
                      \/ config.scope = <<>> /\ config.defaultTTLSeconds > 0
                      \/ r.ttl # NoHeader
                THEN Dispatched(t)
                ELSE NotHandled(t)

\* C17 witness: with the scope /a/ and the default TTL 0, a GET of /p with
\* the TTL directive 3 has been served by a strategy.
C17_Witness ==
    /\ config.scope = <<PathScope>>
    /\ config.defaultTTLSeconds = 0
    /\ PlainRead(turn[1])
    /\ turn[1].request.url = Url(SelfOrigin, PathOutside, "")
    /\ turn[1].request.ttl = "3"
    /\ turn[1].pc = "done"
    /\ turn[1].result.kind = "network"
    /\ turn[1].written = {turn[1].request.url}


\* A GET of another origin without clear or invalidation directive.
ForeignRead(t) ==
    /\ t.pc # "idle"
    /\ t.request.method = "GET"
    /\ t.request.url.origin # SelfOrigin
    /\ Plain(t.request)

\* C18: a GET whose origin is not the service worker's, without clear or
\* invalidation directive, gets the not-handled result whatever the scope and
\* its TTL directive: no network call, no lookup, no write, and it is not
\* counted; and no key of any cache, written or about to be written, has
\* another origin than the service worker's.
C18_CrossOriginUnhandled ==
    /\ \A s \in Slots :
          ForeignRead(turn[s]) =>
              (NotHandled(turn[s]) /\ ~turn[s].counted /\ ~turn[s].swept)
    /\ \A i \in DOMAIN caches : \A p \in caches[i] : p.key.origin = SelfOrigin
    /\ \A p \in bgPut : p.key.origin = SelfOrigin

\* C18 witness: with an empty scope list and a positive default TTL, a GET of
\* https://other.example/a/u with the TTL directive 3 has been answered with
\* the not-handled result, while the cache holds same-origin entries.
C18_Witness ==
    /\ config.scope = <<>>
    /\ config.defaultTTLSeconds > 0
    /\ ForeignRead(turn[1])
    /\ turn[1].request.ttl = "3"
    /\ NotHandled(turn[1])
    /\ current # 0
    /\ caches[current] # {}


\* A request whose method is neither GET nor mutating, without clear or
\* invalidation directive.
OtherMethodRequest(t) ==
    /\ t.pc # "idle"
    /\ t.request.method \notin {"GET", "POST", "PATCH", "PUT", "DELETE"}
    /\ Plain(t.request)

\* C19, the turn: it ends with the not-handled result, having made no network
\* call and no access to the store, and it is not counted.
C19_OtherMethodsUnhandled ==
    \A s \in Slots :
        OtherMethodRequest(turn[s]) =>
            (NotHandled(turn[s]) /\ ~turn[s].counted /\ ~turn[s].swept)

\* C19, the step: the step that receives such a request leaves the fetch
\* counter, the caches and the cleanups as they are.
C19_NothingAdvanced ==
    (\E s \in Slots :
        turn'[s].id # turn[s].id /\ OtherMethodRequest(turn'[s])) =>
    UNCHANGED <<fetchCounter, otherFetchCounter, caches, current, netCalls, sweeps, bgFetch, bgPut, bgDelete>>

\* C19: a request whose method is neither GET nor POST, PATCH, PUT or DELETE,
\* without clear or invalidation directive, gets the not-handled result, and
\* the step that receives it makes no network call, does not touch the store
\* and does not advance the fetch counter.
C19_OtherMethods == []C19_OtherMethodsUnhandled /\ [][C19_NothingAdvanced]_vars

\* C19 witness: a HEAD of /a/u with the TTL directive 3 has been answered with
\* the not-handled result while the cache holds the entry of /a/u.
C19_Witness ==
    /\ OtherMethodRequest(turn[1])
    /\ turn[1].request.method = "HEAD"
    /\ turn[1].request.ttl = "3"
    /\ NotHandled(turn[1])
    /\ current # 0
    /\ UsersUrl \in Keys(caches[current])


\* The lookup of a strategy has returned an entry which was then at least
\* maxCacheAgeSeconds old.
FoundExpired(t) ==
    /\ t.pc # "idle"
    /\ EngineRequest(t.request)
    /\ t.cachedResponse # NoEntry
    /\ ExpiredAt(t.cachedResponse, config.maxCacheAgeSeconds, t.matchedAt)

\* C20: in every strategy, when the lookup returns an entry at least
\* maxCacheAgeSeconds old, the turn calls cache.delete for it in the step in
\* which the lookup resolves, whatever the TTL and stale-TTL of the request
\* make of the entry.
C20_ReactiveEviction ==
    \A s \in Slots :
        LET t == turn[s] IN
        FoundExpired(t) => t.deleteCalls = {t.request.url}

\* C20 witness: a stale-while-revalidate turn found an entry that was stale
\* under the request's TTLs and too old to be kept, and called cache.delete.
C20_Witness ==
    /\ FoundExpired(turn[1])
    /\ StrategyOf(turn[1].request) = "stale-while-revalidate"
    /\ StaleAt(turn[1].cachedResponse, TTLOf(turn[1].request),
               StaleTTLOf(turn[1].request), turn[1].matchedAt)
    /\ turn[1].deleteCalls = {turn[1].request.url}


----------------------------------------------------------------------------
(***************************************************************************)
(* Specification SpecCount: one handler instance from its construction     *)
(* through MaxCounted read requests.  Every request is a same-origin GET   *)
(* without clear or invalidation directive, so every request is counted    *)
(* (lines 165-175) and the id of a turn is its rank among the counted      *)
(* requests.  The requests are answered with the not-handled result (TTL   *)
(* directive 0, or a path out of scope), so the cache stays empty and a     *)
(* cleanup ends when it has opened the cache.                              *)
(***************************************************************************)
CountedRequests ==
    {Get(UsersUrl, NoHeader, "0", NoHeader),
     Get(Url(SelfOrigin, PathOutside, ""), NoHeader, NoHeader, NoHeader)}

InitCount ==
    /\ now = 0
    /\ config = Config
    /\ fetchCounter = 0
    /\ otherFetchCounter = 0
    /\ caches = <<>>
    /\ current = 0
    /\ turn = [s \in Slots |-> IdleTurn]
    /\ requests = 0
    /\ netCalls = 0
    /\ bgFetch = {}
    /\ bgPut = {}
    /\ bgDelete = {}
    /\ sweeps = {}
    /\ bgDone = {}

NextCount ==
    \/ \E request \in CountedRequests : HandleRequestWithin(1, request, MaxCounted)
    \/ \E w \in sweeps : SweepOpen(w)

SpecCount == InitCount /\ [][NextCount]_vars

\* C21: every request of SpecCount is counted, and a periodic sweep fires on
\* the first counted request and from then on on exactly the hundredth
\* counted request after the one that fired the sweep before it (the counted
\* requests 1, 101, 201, ...), on no request in between and on none later.
C21_SweepEveryHundredth ==
    \A s \in Slots :
        LET t == turn[s] IN
        t.pc # "idle" =>
            /\ t.counted
            /\ t.swept <=> (t.id - 1) % 100 = 0

\* C21 witness: the fiftieth counted request has fired no sweep.
C21_Witness ==
    /\ turn[1].id = 50
    /\ turn[1].counted
    /\ ~turn[1].swept
    /\ fetchCounter = 50


\* C22, the first request: the step that counts the first read request of the
\* handler instance (fetchCounter leaves 0) starts a cleanup, which has not
\* opened the cache yet, and the turn of that request is already on its way.
C22_FirstRequestSweeps ==
    (fetchCounter = 0 /\ fetchCounter' # 0) =>
        /\ NewSweep \in sweeps'
        /\ \E s \in Slots :
              /\ turn'[s].id = requests'
              /\ turn'[s].counted
              /\ turn'[s].swept
              /\ turn'[s].pc \in {"match", "open", "done"}

\* C22, the turn: a request turn that has not settled can always take its
\* next step, whatever the cleanups are doing.
C22_TurnNeverWaits ==
    \A s \in Slots :
        turn[s].pc \notin {"idle", "done"} => ENABLED TurnStep(s)

\* C22: the first counted read request of a handler instance starts a
\* full-cache sweep, and the request that starts a sweep is not delayed by it:
\* its turn proceeds in the same step and is never blocked while the sweep
\* runs.
C22_SweepOffCriticalPath == [][C22_FirstRequestSweeps]_vars /\ []C22_TurnNeverWaits

\* C22 witness: the first request has been served from the network and stored
\* while the sweep it started has not yet opened the cache.
C22_Witness ==
    /\ requests = 1
    /\ turn[1].swept
    /\ turn[1].pc = "done"
    /\ turn[1].result.kind = "network"
    /\ turn[1].written = {turn[1].request.url}
    /\ sweeps = {NewSweep}


----------------------------------------------------------------------------
(***************************************************************************)
(* Specification SpecSweep: the embedding code calls the exported          *)
(* cleanupOldCacheEntries(cacheName, maxAgeSeconds) on a cache that holds  *)
(* entries of several ages, some of them without timestamp (written by     *)
(* other code under the same cache name), or on no cache at all.  No       *)
(* request is handled meanwhile; the clock runs.                           *)
(***************************************************************************)
PostsUrl == Url(SelfOrigin, PathPosts, "")

\* Date.now() when the behaviour starts
SweepStart == 2 * MsPerSecond

\* x-sw-cache-timestamp of the entries: none, or an instant up to SweepStart
SweepTimestamps == {Null, 0, MsPerSecond, SweepStart}

\* the entries a cache can hold under `key`
EntriesOf(key, payload) ==
    {[key |-> key, response |-> [status |-> 200, payload |-> payload, ts |-> ts]] :
        ts \in SweepTimestamps}

SweepStores ==
    {a \cup b : a \in {{}} \cup {{e} : e \in EntriesOf(UsersUrl, 1)},
                b \in {{}} \cup {{e} : e \in EntriesOf(PostsUrl, 2)}}

\* the maxAgeSeconds arguments of the manual calls
SweepMaxAges == {1, 2}

InitSweep ==
    /\ now = SweepStart
    /\ config = Config
    /\ fetchCounter = 0
    /\ otherFetchCounter = 0
    /\ caches \in {<<>>} \cup {<<store>> : store \in SweepStores}
    /\ current = Len(caches)
    /\ turn = [s \in Slots |-> IdleTurn]
    /\ requests = 0
    /\ netCalls = 0
    /\ bgFetch = {}
    /\ bgPut = {}
    /\ bgDelete = {}
    /\ sweeps = {}
    /\ bgDone = {}

NextSweep ==
    \/ \E maxAgeSeconds \in SweepMaxAges : CleanupOldCacheEntries(maxAgeSeconds)
    \/ \E w \in sweeps : SweepOpen(w)
    \/ \E w \in sweeps : \E k \in w.keys : SweepVisit(w, k)
    \/ \E d \in bgDelete : BgDeleteApplied(d)
    \/ \E w \in sweeps : SweepSettled(w)
    \/ Tick

SpecSweep == InitSweep /\ [][NextSweep]_vars

\* The instant at which the sweep examined the entry of `key`.
ExaminedAt(w, key) == (CHOOSE x \in w.seen : x.key = key).at

\* The entry survives a sweep with the limit maxAgeSeconds made at the
\* instant `at`: it has no timestamp, or its age is below the limit.
Survives(entry, maxAgeSeconds, at) ==
    entry.ts = Null \/ at - entry.ts < maxAgeSeconds * 1000

\* C23: when a manual cleanupOldCacheEntries(cacheName, maxAgeSeconds) call
\* has returned and nothing else has written to the cache, the cache holds
\* exactly the entries it held at the start that had no timestamp or were
\* younger than maxAgeSeconds * 1000 ms when the sweep examined them, each as
\* it was; every entry at least that old is gone; and the call returns on an
\* empty or missing cache as well, leaving it empty.
C23_ManualSweepPostcondition ==
    \A w \in sweeps :
        (w.manual /\ w.phase = "returned") =>
            /\ {x.key : x \in w.seen} = Keys(w.before)
            /\ caches[w.cache] =
                   {p \in w.before :
                       Survives(p.response, w.maxAgeSeconds, ExaminedAt(w, p.key))}
            /\ bgDelete = {}

\* C23 witness: a call with the limit 1 s has returned; it removed the entry
\* of /a/u, 1000 ms old, and kept the entry of /a/p, which has no timestamp.
C23_Witness ==
    \E w \in sweeps :
        /\ w.manual
        /\ w.phase = "returned"
        /\ w.maxAgeSeconds = 1
        /\ UsersUrl \in Keys(w.before)
        /\ Match(w.before, UsersUrl).ts = ExaminedAt(w, UsersUrl) - 1000
        /\ Match(w.before, PostsUrl).ts = Null
        /\ Keys(caches[w.cache]) = {PostsUrl}


----------------------------------------------------------------------------
(***************************************************************************)
(* Specification SpecTTL: cache-first handlers with and without default    *)
(* TTL and default stale TTL serve reads of one resource whose TTL and     *)
(* stale-TTL headers are absent, zero, positive, negative or not a number. *)
(***************************************************************************)
TTLConfigs ==
    {[Config EXCEPT !.defaultTTLSeconds = ttl, !.defaultStaleTTLSeconds = staleTTL] :
        ttl \in {0, 1}, staleTTL \in {0, 2}}

TTLRequests ==
    {Get(UsersUrl, NoHeader, ttl, staleTtl) : ttl \in TTLValues, staleTtl \in TTLValues}

InitTTL ==
    /\ now = 0
    /\ config \in TTLConfigs
    /\ fetchCounter = 0
    /\ otherFetchCounter = 0
    /\ caches = <<>>
    /\ current = 0
    /\ turn = [s \in Slots |-> IdleTurn]
    /\ requests = 0
    /\ netCalls = 0
    /\ bgFetch = {}
    /\ bgPut = {}
    /\ bgDelete = {}
    /\ sweeps = {}
    /\ bgDone = {}

NextTTL ==
    \/ \E request \in TTLRequests : HandleRequest(1, request)
    \/ MatchDone(1)
    \/ DeleteDone(1)
    \/ \E outcome \in Outcomes : FetchSettles(1, outcome)
    \/ PutDone(1)
    \/ \E w \in sweeps : SweepOpen(w)
    \/ \E w \in sweeps : \E k \in w.keys : SweepVisit(w, k)
    \/ \E d \in bgDelete : BgDeleteApplied(d)
    \/ Tick

SpecTTL == InitTTL /\ [][NextTTL]_vars

\* Header values that are negative or not a number.
InvalidValues == {"-1", "abc"}

\* The number a positive header value spells.
PositiveValue(value) ==
    CASE value = "1" -> 1 [] value = "2" -> 2 [] value = "3" -> 3 [] value = "4" -> 4

\* What an absent directive resolves to: the default when it is positive,
\* nothing otherwise.
WhenAbsent(default) == IF default > 0 THEN default ELSE Null

\* The handler has resolved the TTL of the request (line 179).
ResolvedTTL(t) == t.pc # "idle" /\ t.counted

\* The handler has resolved the stale TTL of the request (line 191).
ResolvedStaleTTL(t) == ResolvedTTL(t) /\ Dispatched(t)

\* C24 as stated: a TTL directive that is negative or not a number resolves
\* as an absent one does, to what the default TTL yields, and so does such a
\* stale-TTL directive with the default stale TTL; the value 0 resolves to no
\* TTL (opt-out) and no stale TTL (no stale fallback).
C24_InvalidAsAbsent ==
    \A s \in Slots :
        LET t == turn[s]
            r == t.request
        IN  /\ ResolvedTTL(t) =>
                  /\ r.ttl \in InvalidValues => t.ttl = WhenAbsent(config.defaultTTLSeconds)
                  /\ r.ttl = "0" => t.ttl = Null
            /\ ResolvedStaleTTL(t) =>
                  /\ r.staleTtl \in InvalidValues =>
                         t.staleTTL = WhenAbsent(config.defaultStaleTTLSeconds)
                  /\ r.staleTtl = "0" => t.staleTTL = Null

\* C24 amended: a TTL directive that is 0, negative or not a number resolves
\* to no TTL whatever the default, and the request is not handled; such a
\* stale-TTL directive resolves to no stale TTL whatever the default.  A
\* positive value resolves to itself, an absent directive to the default
\* when that is positive and to nothing otherwise.
C24_InvalidAsZero ==
    \A s \in Slots :
        LET t == turn[s]
            r == t.request
        IN  /\ ResolvedTTL(t) =>
                  /\ t.ttl = IF r.ttl = NoHeader THEN WhenAbsent(config.defaultTTLSeconds)
                             ELSE IF r.ttl \in InvalidValues \cup {"0"} THEN Null
                             ELSE PositiveValue(r.ttl)
                  /\ r.ttl \in InvalidValues \cup {"0"} => NotHandled(t)
            /\ ResolvedStaleTTL(t) =>
                  t.staleTTL =
                      IF r.staleTtl = NoHeader
                      THEN WhenAbsent(config.defaultStaleTTLSeconds)
                      ELSE IF r.staleTtl \in InvalidValues \cup {"0"} THEN Null
                      ELSE PositiveValue(r.staleTtl)

\* C24 witness: with the default TTL 1 and the default stale TTL 2, a read
\* with the stale-TTL directive "abc" found an entry 1000 ms old, stale under
\* the defaults; it resolved to no stale TTL, so when the network call threw
\* the promise rejected.
C24_Witness ==
    /\ config.defaultTTLSeconds = 1
    /\ config.defaultStaleTTLSeconds = 2
    /\ ResolvedStaleTTL(turn[1])
    /\ turn[1].request.ttl = NoHeader
    /\ turn[1].request.staleTtl = "abc"
    /\ turn[1].staleTTL = Null
    /\ turn[1].cachedResponse # NoEntry
    /\ turn[1].matchedAt - turn[1].cachedResponse.ts = 1000
    /\ turn[1].threw
    /\ turn[1].result = Rejected(turn[1].call)


----------------------------------------------------------------------------
(***************************************************************************)
(* Store failures.  caches.delete, cache.delete and cache.put return       *)
(* promises; each action below is the other outcome of one of the awaits   *)
(* (or un-awaited calls) above: the promise rejects and the store is left  *)
(* as it was.                                                              *)
(***************************************************************************)

\* the promise of the handler rejects with the error the store threw
RejectedByStore == [kind |-> "store-error", response |-> NoEntry]

\* lines 84-87: await clearCache(cacheName) throws inside the async function
ClearCacheFails(s) ==
    /\ turn[s].pc = "clearCache"
    /\ turn' = [turn EXCEPT ![s] =
           Finished([@ EXCEPT !.storeFailed = TRUE], RejectedByStore)]
    /\ UNCHANGED <<now, config, fetchCounter, otherFetchCounter, caches, current, requests, netCalls,
                   bgFetch, bgPut, bgDelete, sweeps, bgDone>>

\* invalidateCache lines 263-272: cache.delete(url, {ignoreSearch: true})
\* rejects inside the try; the catch drops the error and the loop goes on;
\* after the last url, part_003 line 133: return customFetch(request)
InvalidateDeleteFails(s) ==
    /\ turn[s].pc = "invalidateCache"
    /\ LET t == turn[s]
           idx == IF t.cache = 0 THEN OpenIndex ELSE t.cache
           opened == IF t.cache = 0 THEN Opened ELSE caches
           t1 == [t EXCEPT !.cache = idx,
                           !.pathsToInvalidate = Tail(@),
                           !.target = Head(t.pathsToInvalidate),
                           !.storeBefore = opened[idx],
                           !.storeAfter = opened[idx],
                           !.storeFailed = TRUE]
       IN  /\ caches' = opened
           /\ current' = IF t.cache = 0 THEN idx ELSE current
           /\ IF Len(t.pathsToInvalidate) = 1
              THEN /\ turn' = [turn EXCEPT ![s] = Fetching(t1, "passthrough")]
                   /\ netCalls' = netCalls + 1
              ELSE /\ turn' = [turn EXCEPT ![s] = t1]
                   /\ UNCHANGED netCalls
    /\ UNCHANGED <<now, config, fetchCounter, otherFetchCounter, requests, bgFetch, bgPut, bgDelete, sweeps, bgDone>>

\* cache-first line 209: the awaited cache.delete(request) rejects
DeleteFails(s) ==
    /\ turn[s].pc = "delete"
    /\ turn' = [turn EXCEPT ![s] =
           Finished([@ EXCEPT !.storeFailed = TRUE], RejectedByStore)]
    /\ UNCHANGED <<now, config, fetchCounter, otherFetchCounter, caches, current, requests, netCalls,
                   bgFetch, bgPut, bgDelete, sweeps, bgDone>>

\* lines 234, 273, 335: the awaited cache.put(request, responseToCache) rejects
PutFails(s) ==
    /\ turn[s].pc = "put"
    /\ turn' = [turn EXCEPT ![s] =
           Finished([@ EXCEPT !.storeFailed = TRUE], RejectedByStore)]
    /\ UNCHANGED <<now, config, fetchCounter, otherFetchCounter, caches, current, requests, netCalls,
                   bgFetch, bgPut, bgDelete, sweeps, bgDone>>

\* The turn has called cache.delete(request) without awaiting it
\* (network-first line 255, stale-while-revalidate line 289) and the call is d.
CalledUnawaited(t, d) ==
    /\ d.key \in t.deleteCalls
    /\ d.cache = t.cache
    /\ StrategyOf(t.request) # "cache-first"

\* lines 255, 289 and helpers.js line 322: an un-awaited cache.delete rejects.
\* Nothing awaits the promise of a strategy; Promise.allSettled takes the
\* rejection of a cleanup's.  The turn that made the call, if it is still the
\* turn of its slot, is marked.
BgDeleteFails(d) ==
    /\ d \in bgDelete
    /\ bgDelete' = bgDelete \ {d}
    /\ turn' = [s \in Slots |->
                   IF CalledUnawaited(turn[s], d)
                   THEN [turn[s] EXCEPT !.storeFailed = TRUE]
                   ELSE turn[s]]
    /\ UNCHANGED <<now, config, fetchCounter, otherFetchCounter, caches, current, requests, netCalls,
                   bgFetch, bgPut, sweeps, bgDone>>

(***************************************************************************)
(* Specification SpecFailure: the handler of Spec serving reads under the  *)
(* three strategies, a mutation and a clear request, over a store whose    *)
(* deletes and writes can fail.                                            *)
(***************************************************************************)
FailureRequests ==
    {Get(UsersUrl, st, NoHeader, NoHeader) :
        st \in {NoHeader, "network-first", "stale-while-revalidate"}}
    \cup {Mutation("POST", UsersUrl), Clear("GET", UsersUrl)}

StoreFailure(s) ==
    \/ ClearCacheFails(s)
    \/ InvalidateDeleteFails(s)
    \/ DeleteFails(s)
    \/ PutFails(s)

NextFailure ==
    \/ \E request \in FailureRequests : HandleRequest(1, request)
    \/ TurnStep(1)
    \/ StoreFailure(1)
    \/ \E d \in bgDelete : BgDeleteFails(d)
    \/ Background

SpecFailure == Init /\ [][NextFailure]_vars

\* C25: a turn in which a store delete or write has failed (the cache clear,
\* an invalidation delete, a reactive delete or the write of the network
\* response) rejects with that failure: it ends in the step of the failure
\* with the store's error as its result.
C25_StoreFailureRejects ==
    \A s \in Slots :
        LET t == turn[s] IN
        t.storeFailed => (t.pc = "done" /\ t.result = RejectedByStore)

\* C25 witness: the write of a 2xx network response has failed and the
\* promise of the cache-first turn has rejected with the failure; the store
\* holds no entry.
C25_Witness ==
    /\ turn[1].storeFailed
    /\ UnderStrategy(turn[1], "cache-first")
    /\ turn[1].pc = "done"
    /\ turn[1].networkResponse.status = 200
    /\ turn[1].result = RejectedByStore
    /\ LiveCacheEmpty


----------------------------------------------------------------------------
(***************************************************************************)
(* Specification SpecReads: two request turns at a time.  A fetch event    *)
(* can arrive while the promise of an earlier one is pending, so the       *)
(* awaits of two turns interleave.  The requests are reads of one resource *)
(* under cache-first and stale-while-revalidate, with and without a TTL    *)
(* header.                                                                 *)
(***************************************************************************)
ReadRequests ==
    {Get(UsersUrl, st, ttl, NoHeader) :
        st \in {NoHeader, "stale-while-revalidate"}, ttl \in {NoHeader, "3"}}

\* An entry written by an earlier read of the resource, at the instant 0.
EarlierEntry(key) ==
    [key |-> key, response |-> [status |-> 200, payload |-> 0, ts |-> 0]]

\* A handler that has served requests before: its counter is between two
\* cleanups, and the cache holds nothing or the entry of an earlier read.
InitReads ==
    /\ now = 0
    /\ config = Config
    /\ fetchCounter = 50
    /\ otherFetchCounter = 0
    /\ caches \in {<<EmptyCache>>, <<{EarlierEntry(UsersUrl)}>>}
    /\ current = 1
    /\ turn = [s \in Slots |-> IdleTurn]
    /\ requests = 0
    /\ netCalls = 0
    /\ bgFetch = {}
    /\ bgPut = {}
    /\ bgDelete = {}
    /\ sweeps = {}
    /\ bgDone = {}

NextReads ==
    \/ \E s \in Slots, request \in ReadRequests :
          HandleRequestWithin(s, request, MaxConcurrent)
    \/ \E s \in Slots : MatchDone(s)
    \/ \E s \in Slots : DeleteDone(s)
    \/ \E s \in Slots, outcome \in Outcomes : FetchSettles(s, outcome)
    \/ \E s \in Slots : PutDone(s)
    \/ \E b \in bgFetch, outcome \in Outcomes : BgFetchSettles(b, outcome)
    \/ \E p \in bgPut : BgPutApplied(p)
    \/ \E d \in bgDelete : BgDeleteApplied(d)
    \/ Tick

SpecReads == InitReads /\ [][NextReads]_vars

\* The lookup of the turn has returned an entry.
FoundEntry(t) ==
    /\ t.pc # "idle"
    /\ EngineRequest(t.request)
    /\ t.matchedAt # Null
    /\ t.cachedResponse # NoEntry

\* The turn has treated the entry it found as fresh: it returned it at the
\* instant of the lookup without a network call.
TreatedFresh(t) ==
    /\ t.result = FromCache(t.cachedResponse)
    /\ t.doneAt = t.matchedAt
    /\ t.fetches = 0

\* The turn has treated the entry it found as stale: it returned it at the
\* instant of the lookup and started a revalidation (stale-while-revalidate),
\* or returned it when its network call failed (cache-first).
TreatedStale(t) ==
    /\ t.result = FromCache(t.cachedResponse)
    /\ t.fetches = 1
    /\ t.doneAt = t.matchedAt \/ t.threw

\* C26, the store: an entry is a status, a payload and a timestamp, nothing
\* else.
C26_NoTTLStored ==
    /\ \A i \in DOMAIN caches : \A p \in caches[i] :
          DOMAIN p.response = {"status", "payload", "ts"}
    /\ \A p \in bgPut : DOMAIN p.response = {"status", "payload", "ts"}

\* C26: no TTL is stored with an entry, and how a read treats the entry it
\* finds is a function of the entry's timestamp, the instant of the read and
\* the TTL and stale TTL resolved for the reading request, whoever wrote the
\* entry and under whichever TTL: a cache-first read treats it as fresh iff
\* its age is below the reader's TTL, and as stale when its network call fails
\* iff its age then lies between the reader's TTL and stale TTL; a
\* stale-while-revalidate read of an entry younger than the retention maximum
\* treats it as fresh or stale by the same two tests at the lookup.
C26_ClassifiedAtReadTime ==
    /\ C26_NoTTLStored
    /\ \A s \in Slots :
          LET t == turn[s]
              e == t.cachedResponse
          IN  FoundEntry(t) =>
                IF StrategyOf(t.request) = "cache-first"
                THEN /\ TreatedFresh(t) <=> FreshAt(e, t.ttl, t.matchedAt)
                     /\ (t.pc = "done" /\ t.threw) =>
                            (TreatedStale(t) <=> StaleAt(e, t.ttl, t.staleTTL, t.doneAt))
                ELSE ~ExpiredAt(e, config.maxCacheAgeSeconds, t.matchedAt) =>
                     /\ TreatedFresh(t) <=> FreshAt(e, t.ttl, t.matchedAt)
                     /\ TreatedStale(t) <=> StaleAt(e, t.ttl, t.staleTTL, t.matchedAt)

\* C26 witness: two cache-first reads found the same entry at the same
\* instant; the one with the TTL directive 3 treated it as fresh, the one
\* without treated it as not fresh and called the network.
C26_Witness ==
    /\ FoundEntry(turn[1])
    /\ FoundEntry(turn[2])
    /\ StrategyOf(turn[1].request) = "cache-first"
    /\ StrategyOf(turn[2].request) = "cache-first"
    /\ turn[1].cachedResponse = turn[2].cachedResponse
    /\ turn[1].matchedAt = turn[2].matchedAt
    /\ turn[1].ttl = 3
    /\ turn[2].ttl = 1
    /\ TreatedFresh(turn[1])
    /\ ~TreatedFresh(turn[2])
    /\ turn[2].fetches = 1


----------------------------------------------------------------------------
(***************************************************************************)
(* Specification SpecRace: two request turns at a time, reads of one       *)
(* resource under the three strategies and a mutation of it, on a handler  *)
(* in service.                                                             *)
(***************************************************************************)
RaceRequests ==
    {Get(UsersUrl, st, NoHeader, NoHeader) :
        st \in {NoHeader, "network-first", "stale-while-revalidate"}}
    \cup {Mutation("POST", UsersUrl)}

NextRace ==
    \/ \E s \in Slots, request \in RaceRequests :
          HandleRequestWithin(s, request, MaxConcurrent)
    \/ \E s \in Slots : InvalidateStep(s)
    \/ \E s \in Slots : MatchDone(s)
    \/ \E s \in Slots : DeleteDone(s)
    \/ \E s \in Slots : OpenDone(s)
    \/ \E s \in Slots, outcome \in Outcomes : FetchSettles(s, outcome)
    \/ \E s \in Slots : FallbackMatch(s)
    \/ \E s \in Slots : PutDone(s)
    \/ \E b \in bgFetch, outcome \in Outcomes : BgFetchSettles(b, outcome)
    \/ \E p \in bgPut : BgPutApplied(p)
    \/ \E d \in bgDelete : BgDeleteApplied(d)
    \/ Tick

SpecRace == InitReads /\ [][NextRace]_vars

\* The invalidation step of the turn has completed: every target has been
\* applied and the turn has issued its own network call.
InvalidationCompleted(t) ==
    /\ InvalidationPath(t)
    /\ t.targets # <<>>
    /\ t.pathsToInvalidate = <<>>
    /\ t.fetches = 1

\* The entry is one of a target of the turn.
Targeted(t, p) ==
    \E i \in 1..Len(t.targets) :
        p.key.origin = t.targets[i].origin /\ p.key.pathname = t.targets[i].pathname

\* C27: once the invalidation step of a turn has completed, every entry of a
\* target path in the store has the payload of a network call issued after
\* that: network calls are numbered in the order of issue, the turn issues
\* its own call when its invalidation completes, so the payload is that of a
\* call with a higher number.
C27_NoStaleReinsertion ==
    \A s \in Slots :
        LET t == turn[s] IN
        InvalidationCompleted(t) =>
            \A p \in caches[t.cache] :
                Targeted(t, p) => p.response.payload > t.call

\* C27 witness: a POST has removed the entry of /a/u, and a read that called
\* the network after that has stored its response.
C27_Witness ==
    /\ InvalidationCompleted(turn[2])
    /\ turn[2].deleted = {UsersUrl}
    /\ turn[1].pc = "done"
    /\ turn[1].written = {UsersUrl}
    /\ turn[1].call > turn[2].call
    /\ Match(caches[turn[2].cache], UsersUrl).payload = turn[1].call


----------------------------------------------------------------------------
(***************************************************************************)
(* Specification SpecEvict: a service worker that has been restarted.  The *)
(* handler is new (its first read starts a cleanup), the cache has kept    *)
(* the entry of an earlier read or is empty; two request turns at a time   *)
(* read the resource under the three strategies while the cleanups run.    *)
(***************************************************************************)
EvictRequests ==
    {Get(UsersUrl, st, NoHeader, NoHeader) :
        st \in {NoHeader, "network-first", "stale-while-revalidate"}}

InitEvict ==
    /\ now = 0
    /\ config = Config
    /\ fetchCounter = 0
    /\ otherFetchCounter = 0
    /\ caches \in {<<EmptyCache>>, <<{EarlierEntry(UsersUrl)}>>}
    /\ current = 1
    /\ turn = [s \in Slots |-> IdleTurn]
    /\ requests = 0
    /\ netCalls = 0
    /\ bgFetch = {}
    /\ bgPut = {}
    /\ bgDelete = {}
    /\ sweeps = {}
    /\ bgDone = {}

NextEvict ==
    \/ \E s \in Slots, request \in EvictRequests :
          HandleRequestWithin(s, request, MaxConcurrent)
    \/ \E s \in Slots : MatchDone(s)
    \/ \E s \in Slots : DeleteDone(s)
    \/ \E s \in Slots : OpenDone(s)
    \/ \E s \in Slots, outcome \in Outcomes : FetchSettles(s, outcome)
    \/ \E s \in Slots : FallbackMatch(s)
    \/ \E s \in Slots : PutDone(s)
    \/ Background

SpecEvict == InitEvict /\ [][NextEvict]_vars

\* C28: every entry that an eviction removes (the delete of a sweep, the
\* un-awaited reactive delete of network-first and stale-while-revalidate,
\* the awaited reactive delete of cache-first) is at least
\* maxCacheAgeSeconds * 1000 ms old at the instant it is removed; an entry
\* written since the evictor looked the key up is not removed.
C28_EvictsOnlyExpired ==
    /\ \A d \in bgDone :
          d.how = "evicted" => ExpiredAt(d.entry, config.maxCacheAgeSeconds, d.at)
    /\ \A s \in Slots :
          turn[s].evicted # NoEntry =>
              ExpiredAt(turn[s].evicted, config.maxCacheAgeSeconds, turn[s].evictedAt)

\* C28 witness: a sweep has removed the entry of the earlier read, 2000 ms
\* old or more, while a request turn was waiting for the network.
C28_Witness ==
    /\ \E d \in bgDone :
          /\ d.how = "evicted"
          /\ d.entry = EarlierEntry(UsersUrl).response
          /\ d.at >= 2000
    /\ turn[1].pc = "fetch"
    /\ turn[1].deleteCalls = {}
    /\ turn[2].deleteCalls = {}


\* The lookup of the turn found nothing it could use: no entry, or an entry
\* neither fresh nor stale for the request.
FoundNothingUsable(t) ==
    /\ t.pc # "idle"
    /\ EngineRequest(t.request)
    /\ t.matchedAt # Null
    /\ \/ t.cachedResponse = NoEntry
       \/ ~(\/ FreshAt(t.cachedResponse, t.ttl, t.matchedAt)
            \/ StaleAt(t.cachedResponse, t.ttl, t.staleTTL, t.matchedAt))

\* The turn has completed after writing the 2xx response of its network call.
WroteAndCompleted(t) ==
    /\ t.pc = "done"
    /\ t.written = {t.request.url}
    /\ t.networkResponse.status \in 200..299

\* Two turns were reading the same key at the same time: each looked the key
\* up before the other wrote.
ConcurrentReads(a, b) ==
    /\ a.id # b.id
    /\ a.request.url = b.request.url
    /\ FoundNothingUsable(a)
    /\ FoundNothingUsable(b)
    /\ a.cachedResponse.payload # b.call
    /\ b.cachedResponse.payload # a.call

\* C29: two concurrent reads of a key that both found nothing usable have
\* each made their own network call; when both have written their 2xx
\* response and completed, and no delete is pending, the store holds under
\* the key one entry: status, payload and timestamp of the response of the
\* turn that wrote last, stamped when that response arrived.
C29_LastWriteWins ==
    \A a \in Slots, b \in Slots :
        LET ta == turn[a]
            tb == turn[b]
        IN  (/\ ConcurrentReads(ta, tb)
             /\ WroteAndCompleted(ta)
             /\ WroteAndCompleted(tb)
             /\ ta.id \in tb.wroteAfter) =>
                /\ ta.fetches = 1 /\ tb.fetches = 1
                /\ ta.call # tb.call
                /\ netCalls >= 2
                /\ bgDelete = {} =>
                      /\ Cardinality({p \in caches[tb.cache] : p.key = tb.request.url}) = 1
                      /\ Match(caches[tb.cache], tb.request.url) =
                             [status |-> tb.networkResponse.status,
                              payload |-> tb.call, ts |-> tb.stampedAt]

\* C29 witness: two reads missed, the one that called the network first
\* wrote last, and the store holds its entry, whose timestamp is older than
\* that of the entry it replaced.
C29_Witness ==
    /\ ConcurrentReads(turn[1], turn[2])
    /\ WroteAndCompleted(turn[1])
    /\ WroteAndCompleted(turn[2])
    /\ turn[1].cachedResponse = NoEntry
    /\ turn[2].cachedResponse = NoEntry
    /\ turn[1].id \in turn[2].wroteAfter
    /\ turn[2].call < turn[1].call
    /\ turn[2].stampedAt < turn[1].stampedAt
    /\ turn[2].replaced = turn[1].stored
    /\ Match(caches[turn[2].cache], UsersUrl) = turn[2].stored

\* The delete a turn called for without awaiting it has been carried out or
\* has failed: none is pending for the turn's key.
ReactiveDeleteSettled(t) ==
    /\ t.deleteCalls = {t.request.url}
    /\ [cache |-> t.cache, key |-> t.request.url] \notin bgDelete

\* No other turn has written or deleted anything.
AloneOnStore(s) ==
    \A o \in Slots \ {s} : turn[o].written = {} /\ turn[o].deleteCalls = {}

\* C30: a stale-while-revalidate turn whose lookup returned a
\* retention-expired entry and whose network call returned 2xx has completed,
\* and the delete it called for at the lookup has settled; no other turn
\* wrote or deleted.  Then the store holds under the key the entry the turn
\* wrote: the response of its network call, stamped at its arrival.
C30_DeleteSparesNewEntry ==
    \A s \in Slots :
        LET t == turn[s] IN
        (/\ UnderStrategy(t, "stale-while-revalidate")
         /\ FoundExpired(t)
         /\ WroteAndCompleted(t)
         /\ ReactiveDeleteSettled(t)
         /\ AloneOnStore(s)) =>
            /\ StoredNetworkResponse(t)
            /\ Match(caches[t.cache], t.request.url) = t.stored

\* C30 witness: the delete was carried out while the turn waited for the
\* network; it removed the old entry, and the entry written later stands.
C30_Witness ==
    /\ UnderStrategy(turn[1], "stale-while-revalidate")
    /\ FoundExpired(turn[1])
    /\ WroteAndCompleted(turn[1])
    /\ ReactiveDeleteSettled(turn[1])
    /\ AloneOnStore(1)
    /\ turn[1].replaced = NoEntry
    /\ \E d \in bgDone : d.how = "evicted" /\ d.entry = turn[1].cachedResponse
    /\ Match(caches[turn[1].cache], UsersUrl) = turn[1].stored

----------------------------------------------------------------------------
\* C31: a request turn calls customFetch at most once, the background
\* revalidation of stale-while-revalidate included, whatever the call does:
\* a turn whose call threw has made no second call, and a turn that rejects
\* with a network error rejects with the error its own call threw.
C31_OneCallNoRetry ==
    /\ netCalls <= requests
    /\ \A s \in Slots :
           LET t == turn[s] IN
           /\ t.fetches <= 1
           /\ Cardinality({b \in bgFetch : b.owner = t.id /\ t.pc # "idle"}) <= t.fetches
           /\ t.threw => t.fetches = 1
           /\ (t.pc = "done" /\ t.threw) =>
                  \/ t.result = Rejected(t.call)
                  \/ t.result = FromCache(t.cachedResponse)
           /\ (t.pc = "done" /\ t.result.kind = "error") =>
                  t.threw /\ t.result.response.payload = t.call

\* C31 witness: the one network call of a read threw, nothing usable was
\* cached, and the turn rejected with the error of that call.
C31_Witness ==
    /\ turn[1].pc = "done"
    /\ turn[1].request.method = "GET"
    /\ turn[1].threw
    /\ turn[1].fetches = 1
    /\ turn[1].call >= 1
    /\ turn[1].result = Rejected(turn[1].call)

----------------------------------------------------------------------------
(***************************************************************************)
(* Specification SpecClear: handlers of several configurations and several *)
(* values of the fetch counter, with an entry in the cache, serve requests *)
(* that carry the clear directive together with whatever else a request    *)
(* can carry, and plain reads of the cached resource.  The clock stands     *)
(* still.                                                                  *)
(***************************************************************************)
ClearRequests ==
    {[method |-> method, url |-> url, clear |-> clear, invalidate |-> invalidate,
      ttl |-> ttl, staleTtl |-> NoHeader, strategy |-> NoHeader] :
        method \in {"GET", "POST", "HEAD"},
        url \in DispatchUrls,
        clear \in {"", "true"},
        invalidate \in {<<>>, <<Url("", PathUsers, "")>>},
        ttl \in {NoHeader, "0"}}

InitClear ==
    /\ now = 0
    /\ config \in DispatchConfigs
    /\ fetchCounter \in FetchCounters
    /\ otherFetchCounter = 0
    /\ caches = <<{EarlierEntry(UsersUrl)}>>
    /\ current = 1
    /\ turn = [s \in Slots |-> IdleTurn]
    /\ requests = 0
    /\ netCalls = 0
    /\ bgFetch = {}
    /\ bgPut = {}
    /\ bgDelete = {}
    /\ sweeps = {}
    /\ bgDone = {}

NextClear ==
    \/ \E request \in ClearRequests \cup {Get(UsersUrl, NoHeader, "3", NoHeader)} :
          HandleRequest(1, request)
    \/ ClearCacheDone(1)
    \/ MatchDone(1)
    \/ \E outcome \in Outcomes : FetchSettles(1, outcome)
    \/ PutDone(1)
    \/ \E w \in sweeps : SweepOpen(w)
    \/ \E w \in sweeps : \E k \in w.keys : SweepVisit(w, k)

SpecClear == InitClear /\ [][NextClear]_vars

----------------------------------------------------------------------------
(***************************************************************************)
(* Failures of the periodic cleanup.  cleanupOldCacheEntries is an async   *)
(* function: a rejection of caches.open, cache.keys or cache.match rejects *)
(* its promise and ends it; the deletes it has already called for go on.   *)
(* A rejection of one of its cache.delete calls goes to Promise.allSettled *)
(* (BgDeleteFails).  handleRequest does not await the promise and gives it *)
(* an empty catch handler.                                                 *)
(***************************************************************************)

\* the cleanup awaited by the turn that started it, without catch handler
AfterSweepFailureAwaited(t) ==
    IF t.swept /\ t.pc \notin {"idle", "done"}
    THEN Finished(t, RejectedByStore)
    ELSE t

\* part_003 lines 169-171: cleanupOldCacheEntries(...).catch(() => {}), not
\* awaited: the rejection does nothing to a turn
AfterSweepFailure(t) == t

\* helpers.js lines 312-313: caches.open(cacheName) or cache.keys() rejects
SweepOpenFails(w) ==
    /\ w \in sweeps
    /\ ~w.manual
    /\ w.phase = "open"
    /\ sweeps' = sweeps \ {w}
    /\ turn' = [s \in Slots |-> AfterSweepFailure(turn[s])]
    /\ bgDone' = bgDone \cup {Ended(0, 0, "sweep-open-failed")}
    /\ UNCHANGED <<now, config, fetchCounter, otherFetchCounter, caches, current, requests, netCalls,
                   bgFetch, bgPut, bgDelete>>

\* helpers.js line 318: cache.match(request) rejects inside the loop
SweepMatchFails(w) ==
    /\ w \in sweeps
    /\ ~w.manual
    /\ w.phase = "visit"
    /\ sweeps' = sweeps \ {w}
    /\ turn' = [s \in Slots |-> AfterSweepFailure(turn[s])]
    /\ bgDone' = bgDone \cup {Ended(0, 0, "sweep-match-failed")}
    /\ UNCHANGED <<now, config, fetchCounter, otherFetchCounter, caches, current, requests, netCalls,
                   bgFetch, bgPut, bgDelete>>

(***************************************************************************)
(* Specification SpecSweepFailure: the handler of Spec over a store whose  *)
(* operations can fail when the periodic cleanup calls them.               *)
(***************************************************************************)
SweepFailure ==
    \/ \E w \in sweeps : SweepOpenFails(w)
    \/ \E w \in sweeps : SweepMatchFails(w)
    \/ \E d \in bgDelete : BgDeleteFails(d)

NextSweepFailure ==
    \/ \E request \in Requests : HandleRequest(1, request)
    \/ TurnStep(1)
    \/ Background
    \/ SweepFailure

SpecSweepFailure == Init /\ [][NextSweepFailure]_vars

\* What a request turn is and has done, apart from the mark left by a
\* failed delete it did not await.
Handling(t) == [t EXCEPT !.storeFailed = FALSE]

\* C33, the step: a failure of the cleanup's open, enumeration, lookup or
\* delete changes no request turn, no cache, no pending network call or
\* write and not the counter.
C33_FailureStepTouchesNothing ==
    (\/ \E w \in sweeps : SweepOpenFails(w) \/ SweepMatchFails(w)
     \/ \E d \in bgDelete : BgDeleteFails(d)) =>
        /\ \A s \in Slots : Handling(turn'[s]) = Handling(turn[s])
        /\ UNCHANGED <<caches, current, fetchCounter, otherFetchCounter, netCalls, bgFetch, bgPut>>

\* C33, the turns: no turn settles with a store error, a rejected turn
\* rejects with the error of its own network call or of its own URL
\* resolution, and a turn that has not settled can take its next step.
C33_NoSweepErrorReachesCaller ==
    \A s \in Slots :
        LET t == turn[s] IN
        /\ t.result.kind # RejectedByStore.kind
        /\ t.result.kind = "error" => t.threw /\ t.result.response.payload = t.call
        /\ t.result = Threw => t.fetches = 0 /\ t.request.method # "GET"
        /\ t.pc \notin {"idle", "done"} => ENABLED TurnStep(s)

\* C33: a failing periodic cleanup never affects request handling: the
\* failure step leaves every turn as it is, and no turn is ever rejected or
\* held up because of it.
C33_SweepFailureSwallowed ==
    [][C33_FailureStepTouchesNothing]_vars /\ []C33_NoSweepErrorReachesCaller

\* C33 witness: the cleanup started by the first request failed at a lookup
\* while the turn of a later request was waiting for the network; that turn
\* has returned and stored the network response.
C33_Witness ==
    /\ Ended(0, 0, "sweep-match-failed") \in bgDone
    /\ sweeps = {}
    /\ requests >= 2
    /\ turn[1].pc = "done"
    /\ turn[1].result.kind = "network"
    /\ turn[1].written = {turn[1].request.url}
    /\ Match(caches[turn[1].cache], turn[1].request.url) = turn[1].stored

----------------------------------------------------------------------------
\* The awaited network call of the read turn returned a response that is
\* not 2xx.
GotNotOk(t) ==
    /\ t.pc = "done"
    /\ EngineRequest(t.request)
    /\ t.networkResponse # NoResponse
    /\ ~(t.networkResponse.status \in 200..299)

\* C34, the turn: a read turn whose network call returned a non-2xx response
\* returns that response; it made one call, which did not throw, made no
\* lookup after it, wrote nothing, and called for a delete only of an entry
\* it had found retention-expired.
C34_NotOkReturned ==
    \A s \in Slots :
        LET t == turn[s] IN
        GotNotOk(t) =>
            /\ t.result = FromNetwork(t.networkResponse)
            /\ t.networkResponse.payload = t.call
            /\ t.fetches = 1 /\ ~t.threw
            /\ t.lookups = (IF StrategyOf(t.request) = "network-first" THEN 0 ELSE 1)
            /\ t.written = {} /\ t.stored = NoEntry
            /\ t.deleteCalls # {} => FoundExpired(t)
            /\ t.deleted # {} => FoundExpired(t)

\* C34, the step: the step in which the non-2xx response arrives changes no
\* cache and starts no write and no delete.
C34_NotOkStepKeepsStore ==
    \A s \in Slots :
        (turn[s].pc = "fetch" /\ GotNotOk(turn'[s])) =>
            UNCHANGED <<caches, current, bgPut, bgDelete, bgFetch>>

\* C34: in every strategy a non-2xx response of the awaited network call is
\* returned to the caller; no cached entry is served in its place, nothing
\* is written, and the entry under the key, unless the lookup found it
\* retention-expired, stays as it is.
C34_NotOkPassedThrough == [][C34_NotOkStepKeepsStore]_vars /\ []C34_NotOkReturned

\* C34 witness: a cache-first read found a stale entry that was not
\* retention-expired, the network returned 500, the caller got the 500 and
\* the entry is still in the cache as it was.
C34_Witness ==
    /\ GotNotOk(turn[1])
    /\ StrategyOf(turn[1].request) = "cache-first"
    /\ turn[1].cachedResponse # NoEntry
    /\ StaleAt(turn[1].cachedResponse, turn[1].ttl, turn[1].staleTTL, turn[1].matchedAt)
    /\ ~ExpiredAt(turn[1].cachedResponse, config.maxCacheAgeSeconds, turn[1].matchedAt)
    /\ turn[1].result.response.status = 500
    /\ Match(caches[turn[1].cache], turn[1].request.url) = turn[1].cachedResponse

----------------------------------------------------------------------------
(***************************************************************************)
(* Specification SpecKeys: handlers of several configurations, starting    *)
(* with no cache, serve reads of four URLs (with and without query string, *)
(* in and out of scope, of this and of another origin) with and without    *)
(* TTL directive under cache-first and stale-while-revalidate, a read with *)
(* an invalidation directive, a read with the clear directive and a        *)
(* mutation; the clock runs, so entries become stale and are revalidated   *)
(* in the background.                                                      *)
(***************************************************************************)
KeyUrls ==
    {UsersUrl, Url(SelfOrigin, PathUsers, "?q"), Url(SelfOrigin, PathOutside, ""),
     Url(OtherOrigin, PathUsers, "")}

KeyRequests ==
    {Get(url, st, ttl, NoHeader) :
        url \in KeyUrls, st \in {NoHeader, "stale-while-revalidate"},
        ttl \in {NoHeader, "0", "3"}}
    \cup {Mutation("POST", UsersUrl),
          Clear("GET", UsersUrl),
          [Get(UsersUrl, NoHeader, "3", NoHeader) EXCEPT
               !.invalidate = <<Url("", PathOutside, "")>>]}

InitKeys ==
    /\ now = 0
    /\ config \in DispatchConfigs
    /\ fetchCounter = 50
    /\ otherFetchCounter = 0
    /\ caches = <<>>
    /\ current = 0
    /\ turn = [s \in Slots |-> IdleTurn]
    /\ requests = 0
    /\ netCalls = 0
    /\ bgFetch = {}
    /\ bgPut = {}
    /\ bgDelete = {}
    /\ sweeps = {}
    /\ bgDone = {}

NextKeys ==
    \/ \E request \in KeyRequests : HandleRequestWithin(1, request, MaxServed)
    \/ ClearCacheDone(1)
    \/ InvalidateStep(1)
    \/ MatchDone(1)
    \/ DeleteDone(1)
    \/ \E outcome \in Outcomes : FetchSettles(1, outcome)
    \/ PutDone(1)
    \/ \E b \in bgFetch, outcome \in Outcomes : BgFetchSettles(b, outcome)
    \/ \E p \in bgPut : BgPutApplied(p)
    \/ Tick

SpecKeys == InitKeys /\ [][NextKeys]_vars

\* A GET of this origin without clear or invalidation directive, whose
\* resolved TTL is positive and which is in scope or carries a TTL directive.
Cacheable(request) ==
    /\ request.method = "GET"
    /\ Plain(request)
    /\ request.url.origin = SelfOrigin
    /\ PositiveTTL(request)
    /\ \/ InScope(request.url)
       \/ config.scope = <<>> /\ config.defaultTTLSeconds > 0
       \/ request.ttl # NoHeader

\* C35: every key in a cache, and every key of a pending background write,
\* is the URL, query string included, of a cacheable request; a turn that
\* has written serves a cacheable request and has written under the URL of
\* its request the response of its own network call; a turn of a mutation,
\* of a request with the clear directive or of one with an invalidation
\* directive has written nothing and started no background call.
C35_KeysOfCacheableReads ==
    /\ \A i \in DOMAIN caches : \A p \in caches[i] :
           \E r \in KeyRequests : Cacheable(r) /\ r.url = p.key
    /\ \A p \in bgPut \cup bgFetch :
           \E r \in KeyRequests : Cacheable(r) /\ r.url = p.key
    /\ \A s \in Slots :
           LET t == turn[s] IN
           /\ t.written # {} =>
                  /\ Cacheable(t.request)
                  /\ StoredNetworkResponse(t)
           /\ (t.pc # "idle" /\ ~Cacheable(t.request)) =>
                  /\ t.written = {} /\ t.stored = NoEntry
                  /\ t.pc # "put"
                  /\ t.lookups = 0
                  /\ NoBackgroundWorkOf(t)

\* C35 witness: the cache holds the entries of /a/u and of /a/u?q side by
\* side, written by two reads, after two requests.
C35_Witness ==
    /\ requests = 2
    /\ turn[1].pc = "done"
    /\ turn[1].request.url = Url(SelfOrigin, PathUsers, "?q")
    /\ turn[1].written = {Url(SelfOrigin, PathUsers, "?q")}
    /\ current # 0
    /\ Keys(caches[current]) = {UsersUrl, Url(SelfOrigin, PathUsers, "?q")}
    /\ Match(caches[current], UsersUrl).payload = 1
    /\ Match(caches[current], Url(SelfOrigin, PathUsers, "?q")).payload = 2

----------------------------------------------------------------------------
(***************************************************************************)
(* Specification SpecInstances: two handler instances, made by two         *)
(* createHandleRequest calls, each with its own fetchCounter, serve         *)
(* MaxInstanceCalls requests between them in any order: reads that are     *)
(* counted and answered with the not-handled result, and reads of another  *)
(* origin, which are not counted.  The turns of the first instance are in  *)
(* slot 1, those of the second in slot 2; the calls of the second instance *)
(* are among the first MaxOtherCalls calls.                                *)
(***************************************************************************)
Instances == {1, 2}

InstanceRequests ==
    {Get(Url(SelfOrigin, PathOutside, ""), NoHeader, NoHeader, NoHeader),
     Get(Url(OtherOrigin, PathOutside, ""), NoHeader, NoHeader, NoHeader)}

NextInstances ==
    \/ \E h \in Instances, request \in InstanceRequests :
          /\ h = 2 => requests < MaxOtherCalls
          /\ HandleRequestBy(h, h, request, MaxInstanceCalls)
    \/ \E w \in sweeps : SweepOpen(w)

SpecInstances == InitCount /\ [][NextInstances]_vars

\* The step is a handleRequest call of the instance whose turns are in slot s.
CalledInstance(s) == turn'[s].id = requests' /\ requests' = requests + 1

\* C36, the states: each counter is 0 or lies in 1..99.
C36_CounterInRange ==
    /\ fetchCounter \in 0..99
    /\ otherFetchCounter \in 0..99

\* C36, the steps: a counter changes only in a call of its own instance that
\* counts the request, and a counted call leaves the counter of its
\* instance in 1..99, so a counter that has left 0 never comes back to it;
\* a call of one instance leaves the counter of the other as it is.
C36_CounterSteps ==
    /\ fetchCounter' # fetchCounter => CalledInstance(1) /\ turn'[1].counted
    /\ otherFetchCounter' # otherFetchCounter => CalledInstance(2) /\ turn'[2].counted
    /\ (CalledInstance(1) /\ turn'[1].counted) =>
           fetchCounter' \in 1..99 /\ otherFetchCounter' = otherFetchCounter
    /\ (CalledInstance(2) /\ turn'[2].counted) =>
           otherFetchCounter' \in 1..99 /\ fetchCounter' = fetchCounter
    /\ (CalledInstance(1) /\ ~turn'[1].counted) => fetchCounter' = fetchCounter
    /\ (CalledInstance(2) /\ ~turn'[2].counted) => otherFetchCounter' = otherFetchCounter

\* C36: the counter of a handler instance is 0 until the first counted
\* request of that instance and in 1..99 after every request from then on;
\* it never rests at 100 or more; the counters of two instances are
\* independent.
C36_CounterBounds == []C36_CounterInRange /\ [][C36_CounterSteps]_vars

\* C36 witness: the first instance has served its hundredth counted request
\* and its counter is back at 1, while the second instance, which has served
\* requests that are not counted only, is still at 0.
C36_Witness ==
    /\ turn[1].id >= 100
    /\ turn[1].counted /\ turn[1].swept
    /\ fetchCounter = 1
    /\ turn[2].pc # "idle"
    /\ ~turn[2].counted
    /\ otherFetchCounter = 0

----------------------------------------------------------------------------
(***************************************************************************)
(* Specification SpecAges: the helpers isFresh, isStale and                *)
(* isOlderThanMaxAge applied by the handler and by the cleanup.  The cache *)
(* holds one entry whose timestamp header is missing, unparseable or one   *)
(* of several instants; handlers of several default TTLs, default          *)
(* stale-TTLs (0: none) and maximum ages serve one read of the entry's URL *)
(* under one of the three strategies at some later instant; the handler's  *)
(* counter is such that the read starts a cleanup, or not.                 *)
(***************************************************************************)
AgeTimestamps == {Null, Unparseable, 0, 1, 999, 1000}

\* defaultTTLSeconds 1 or 2, defaultStaleTTLSeconds none (0) to 3,
\* maxCacheAgeSeconds 1 to 3
AgeConfigs ==
    {[Config EXCEPT !.defaultTTLSeconds = t, !.defaultStaleTTLSeconds = st,
                    !.maxCacheAgeSeconds = m] :
        t \in {1, 2}, st \in {0, 1, 2, 3}, m \in {1, 2, 3}}

AgeRequests ==
    {Get(UsersUrl, st, NoHeader, NoHeader) :
        st \in {NoHeader, "network-first", "stale-while-revalidate"}}

InitAges ==
    /\ now = 0
    /\ config \in AgeConfigs
    /\ fetchCounter \in {50, CleanupInterval - 1}
    /\ otherFetchCounter = 0
    /\ \E ts \in AgeTimestamps :
          caches = <<{[key |-> UsersUrl,
                       response |-> [status |-> 200, payload |-> 0, ts |-> ts]]}>>
    /\ current = 1
    /\ turn = [s \in Slots |-> IdleTurn]
    /\ requests = 0
    /\ netCalls = 0
    /\ bgFetch = {}
    /\ bgPut = {}
    /\ bgDelete = {}
    /\ sweeps = {}
    /\ bgDone = {}

NextAges ==
    \/ \E request \in AgeRequests : HandleRequestWithin(1, request, MaxClassified)
    \/ MatchDone(1)
    \/ DeleteDone(1)
    \/ OpenDone(1)
    \/ \E outcome \in Outcomes : FetchSettles(1, outcome)
    \/ FallbackMatch(1)
    \/ PutDone(1)
    \/ Background

SpecAges == InitAges /\ [][NextAges]_vars

\* The responses held by the caches, and the one a turn has looked up.
StoredResponses == {p.response : p \in UNION {caches[i] : i \in DOMAIN caches}}

Stamped(response) == response.ts \notin {Null, Unparseable}

\* Age in milliseconds of a stamped response at the instant `at`
AgeAt(response, at) == at - response.ts

\* The turn of slot 1 has looked a stamped entry up under the strategy.
LookedUpStamped(strategy) ==
    /\ turn[1].matchedAt # Null
    /\ StrategyOf(turn[1].request) = strategy
    /\ turn[1].cachedResponse # NoEntry
    /\ Stamped(turn[1].cachedResponse)

\* The turn was answered from the cache by the lookup itself, without any
\* call of the network.
AnsweredByLookup(t) ==
    /\ t.pc = "done"
    /\ t.result = FromCache(t.cachedResponse)
    /\ t.doneAt = t.matchedAt
    /\ t.fetches = 0

\* C37: for every entry with a timestamp and every TTL t in seconds, isFresh
\* holds if and only if the age a = now - timestamp in milliseconds is below
\* t * 1000, so at a = t * 1000 the entry is not fresh; accordingly a
\* cache-first read is answered by its lookup alone exactly when the age of
\* the entry at the lookup is below its TTL.
C37_FreshIffYounger ==
    /\ \A response \in StoredResponses : \A t \in 1..3 :
          Stamped(response) =>
              /\ isFresh(response, t) <=> (AgeAt(response, now) < t * 1000)
              /\ AgeAt(response, now) = t * 1000 => ~isFresh(response, t)
    /\ LookedUpStamped("cache-first") =>
          (AnsweredByLookup(turn[1]) <=>
              AgeAt(turn[1].cachedResponse, turn[1].matchedAt)
                  < TTLOf(turn[1].request) * 1000)

\* A cache-first read has looked up an entry whose age is exactly its TTL and
\* has gone to the network for it.
C37_Witness ==
    /\ LookedUpStamped("cache-first")
    /\ AgeAt(turn[1].cachedResponse, turn[1].matchedAt)
           = TTLOf(turn[1].request) * 1000
    /\ turn[1].fetches = 1
    /\ turn[1].pc = "done"

\* The turn was answered from the cache by the lookup itself, which also
\* started the one network call of the turn, in the background.
AnsweredStale(t) ==
    /\ t.pc = "done"
    /\ t.result = FromCache(t.cachedResponse)
    /\ t.doneAt = t.matchedAt
    /\ t.fetches = 1

\* t * 1000 <= a < s * 1000, with s present
InStaleWindow(a, t, s) == s # Null /\ t * 1000 <= a /\ a < s * 1000

\* C38: for every entry with a timestamp, TTL t, stale-TTL s and age a,
\* isStale holds if and only if s is present and t * 1000 <= a < s * 1000,
\* and is false whenever s is absent; so no entry is both fresh and stale
\* under the same TTLs, and no entry is stale when s <= t.  Accordingly a
\* stale-while-revalidate read of an entry younger than the maximum age is
\* answered from the cache with a background revalidation exactly when the
\* age of the entry at the lookup lies in that window.
C38_StaleIffInWindow ==
    /\ \A response \in StoredResponses : \A t \in 1..3, s \in {Null, 1, 2, 3} :
          Stamped(response) =>
              /\ isStale(response, t, s) <=> InStaleWindow(AgeAt(response, now), t, s)
              /\ s = Null => ~isStale(response, t, s)
              /\ ~(isFresh(response, t) /\ isStale(response, t, s))
              /\ (s # Null /\ s <= t) => ~isStale(response, t, s)
    /\ (/\ LookedUpStamped("stale-while-revalidate")
        /\ AgeAt(turn[1].cachedResponse, turn[1].matchedAt)
               < config.maxCacheAgeSeconds * 1000) =>
          (AnsweredStale(turn[1]) <=>
              InStaleWindow(AgeAt(turn[1].cachedResponse, turn[1].matchedAt),
                            TTLOf(turn[1].request), StaleTTLOf(turn[1].request)))

\* A stale-while-revalidate read has looked up an entry whose age is exactly
\* its TTL, below its stale-TTL, and has answered with it while revalidating.
C38_Witness ==
    /\ LookedUpStamped("stale-while-revalidate")
    /\ AgeAt(turn[1].cachedResponse, turn[1].matchedAt)
           = TTLOf(turn[1].request) * 1000
    /\ StaleTTLOf(turn[1].request) # Null
    /\ AnsweredStale(turn[1])

\* The turn has called cache.delete(request) for the entry it looked up.
EvictedOnLookup(t) == t.request.url \in t.deleteCalls

\* C39: for every entry with a timestamp, maximum age m in seconds and age a,
\* the entry is retention-expired (isOlderThanMaxAge) if and only if
\* a >= m * 1000, so an entry exactly at the bound is expired; accordingly a
\* stale-while-revalidate read deletes the entry it looked up exactly when
\* the age of the entry at the lookup has reached the maximum age.
C39_ExpiredIffAtLeastMaxAge ==
    /\ \A response \in StoredResponses : \A m \in 1..3 :
          Stamped(response) =>
              /\ isOlderThanMaxAge(response, m) <=> (AgeAt(response, now) >= m * 1000)
              /\ AgeAt(response, now) = m * 1000 => isOlderThanMaxAge(response, m)
    /\ LookedUpStamped("stale-while-revalidate") =>
          (EvictedOnLookup(turn[1]) <=>
              AgeAt(turn[1].cachedResponse, turn[1].matchedAt)
                  >= config.maxCacheAgeSeconds * 1000)

\* A stale-while-revalidate read has looked up an entry whose age is exactly
\* the maximum age, has deleted it and has answered from the network.
C39_Witness ==
    /\ LookedUpStamped("stale-while-revalidate")
    /\ AgeAt(turn[1].cachedResponse, turn[1].matchedAt)
           = config.maxCacheAgeSeconds * 1000
    /\ EvictedOnLookup(turn[1])
    /\ turn[1].pc = "done"
    /\ turn[1].result.kind = "network"

\* No helper classifies the response, whatever the TTL, stale-TTL and
\* maximum age.
Unclassified(response) ==
    \A t \in 1..3, s \in {Null, 1, 2, 3}, m \in 1..3 :
        /\ ~isFresh(response, t)
        /\ ~isStale(response, t, s)
        /\ ~isOlderThanMaxAge(response, m)

\* The turn treats the entry it looked up as a miss: it does not answer with
\* it and does not call cache.delete for it.
TreatedAsMiss(t) ==
    /\ t.result.kind # "cached"
    /\ t.deleteCalls = {}
    /\ t.deleted = {}
    /\ t.pc # "delete"

C40_UnstampedUnclassified ==
    /\ \A response \in StoredResponses : ~Stamped(response) => Unclassified(response)
    /\ \A s \in Slots :
          (turn[s].cachedResponse # NoEntry /\ ~Stamped(turn[s].cachedResponse)) =>
              TreatedAsMiss(turn[s])
    /\ \A d \in bgDelete :
          Match(caches[d.cache], d.key) # NoEntry => Stamped(Match(caches[d.cache], d.key))

\* A step removes no entry without timestamp: such an entry is still stored
\* after the step, or a cache.put has stored a stamped response under its key.
C40_UnstampedStepKeeps ==
    \A i \in DOMAIN caches : \A p \in caches[i] :
        ~Stamped(p.response) =>
            /\ i \in DOMAIN caches'
            /\ \/ p \in caches'[i]
               \/ /\ Match(caches'[i], p.key) # NoEntry
                  /\ Stamped(Match(caches'[i], p.key))

\* C40: an entry whose timestamp header is missing or unparseable is never
\* classified fresh, stale or retention-expired, for any TTL, stale-TTL and
\* maximum age; no strategy answers with it (the read goes on as after a
\* miss), and neither a reactive eviction nor a sweep deletes it.
C40_UnstampedNeverUsedNorDeleted ==
    []C40_UnstampedUnclassified /\ [][C40_UnstampedStepKeeps]_vars

\* A read that started a cleanup has looked up an entry with an unparseable
\* timestamp and has answered from the network with a response that is not
\* stored; the cleanup has run to its end; three seconds later, beyond every
\* TTL and maximum age, the entry is still in the cache.
C40_Witness ==
    /\ turn[1].pc = "done"
    /\ turn[1].swept
    /\ sweeps = {}
    /\ bgDelete = {}
    /\ turn[1].cachedResponse # NoEntry
    /\ turn[1].cachedResponse.ts = Unparseable
    /\ turn[1].result.kind = "network"
    /\ now = MaxTicks * MsPerSecond
    /\ Match(caches[current], UsersUrl) = turn[1].cachedResponse

====
